---- MODULE Spec2Model ----
(***************************************************************************)
(* A model of the paganini-lang front end: the lexer (parsing/lexer.ts),   *)
(* the recursive-descent parser (parsing/parser.ts), the scope chain       *)
(* (runtime/env.ts), the tree-walking evaluator                            *)
(* (runtime/interpreter.ts) and, of the native math library, the Vector,   *)
(* Vector2D and Point classes, relu and createArithmeticAverager.          *)
(*                                                                         *)
(* Source text is a sequence of one-character strings, a token value and   *)
(* an identifier are sequences of characters.  JavaScript numbers are      *)
(* [k, v]: k = "int" with the integer v, k = "frac" for a finite           *)
(* non-integer whose integer part is v, k = "inf" with the sign v, or      *)
(* k = "nan".                                                              *)
(***************************************************************************)
EXTENDS Integers, Sequences, FiniteSets, TLC

VARIABLES
  src,        \* the source text handed to the Lexer
  lex,        \* the Lexer's fields: _position, _line, _column, tokens, error
  par,        \* the Parser's fields: _position, the Program body, error
  phase,      \* where the front end stands: "lex", "parse", "done"
  env,        \* the scope chain, root first: env[i] maps names to values
  envBefore,  \* the scope chain as it was before the last operation
  last,       \* the outcome of the last operation
  hist,       \* the sources evaluated on this environment so far
  prevPos,    \* the loop that ran last and the position it started from
  heap        \* the native math library: an instance, an averager, the last call

vars == <<src, lex, par, phase, env, envBefore, last, hist, prevPos, heap>>

----------------------------------------------------------------------------
(* Errors *)

NoErr == [kind |-> "none", msg |-> "", name |-> <<>>,
          line |-> 0, column |-> 0, position |-> 0]

Err(kind, msg, name) == [kind |-> kind, msg |-> msg, name |-> name,
                         line |-> 0, column |-> 0, position |-> 0]

UnrecognizedTokenError(c, line, column, position) ==
  [kind |-> "UnrecognizedTokenError", msg |-> "Unrecognized character",
   name |-> <<c>>, line |-> line, column |-> column, position |-> position]

UnexpectedTokenError(t) ==
  [kind |-> "UnexpectedTokenError", msg |-> t.type, name |-> t.value,
   line |-> t.line, column |-> t.column, position |-> t.position]

ParserError(msg, t) ==
  [kind |-> "ParserError", msg |-> msg, name |-> t.value,
   line |-> t.line, column |-> t.column, position |-> t.position]

Exception(msg, name) == Err("Exception", msg, name)

\* The parser never returned: a loop of it made no progress.
Hang == Err("Hang", "no progress", <<>>)

----------------------------------------------------------------------------
(* Lexer *)

Digits == {"0", "1", "2", "3", "4", "5", "6", "7", "8", "9"}

Letters == {"a", "b", "c", "d", "e", "f", "g", "h", "i", "j", "k", "l", "m",
            "n", "o", "p", "q", "r", "s", "t", "u", "v", "w", "x", "y", "z",
            "A", "B", "L", "O", "S", "X", "Y", "Z"}

basicMathOperators == {"+", "-", "*", "/", "%"}

ignorables == {" ", "\n", "\r", "\t"}

controlCharacters == {";", "=", ",", ":", "."}

\* every character a source of the model is written with
Characters == Digits \cup Letters \cup basicMathOperators \cup ignorables \cup
              controlCharacters \cup {"(", ")", "[", "]", "{", "}", "\"", "#", "_"}

keywords == [k \in {<<"l","e","t">>, <<"c","o","n","s","t">>,
                    <<"s","y","m","b","o","l">>, <<"i","f">>,
                    <<"t","h","e","n">>, <<"e","l","s","e">>,
                    <<"w","h","i","l","e">>, <<"f","o","r">>, <<"d","o">>,
                    <<"f","u","n","c">>, <<"n","u","l","l">>} |->
  CASE k = <<"l","e","t">> -> "Let"
    [] k = <<"c","o","n","s","t">> -> "Const"
    [] k = <<"s","y","m","b","o","l">> -> "Symbol"
    [] k = <<"i","f">> -> "If"
    [] k = <<"t","h","e","n">> -> "Then"
    [] k = <<"e","l","s","e">> -> "Else"
    [] k = <<"w","h","i","l","e">> -> "While"
    [] k = <<"f","o","r">> -> "For"
    [] k = <<"d","o">> -> "Do"
    [] k = <<"f","u","n","c">> -> "Func"
    [] OTHER -> "Null"]

controls == [c \in controlCharacters |->
  CASE c = ";" -> "SemiColon"
    [] c = "=" -> "Equals"
    [] c = "," -> "Comma"
    [] c = ":" -> "Colon"
    [] OTHER -> "Dot"]

\* this._char is null past the end of the source
NullChar == "null"

isAlpha(c) == c \in Letters

isInt(c) == c \in Digits

\* /^[0-9]*\.?[0-9]*$/ on a run of digits and dots: at most one dot
isFloat(n) ==
  /\ \A i \in 1..Len(n) : ~isAlpha(n[i])
  /\ \A i \in 1..Len(n) : n[i] \in Digits \cup {"."}
  /\ Cardinality({i \in 1..Len(n) : n[i] = "."}) <= 1

\* this._characters[p], with the null of _next past the end
CharAt(s, p) == IF p < Len(s) THEN s[p + 1] ELSE NullChar

\* Lexer._next
LexNext(p) == p + 1

\* while(this._char !== null && this._char in S) this._next(): where it stops
ScanWhile(s, p, S) ==
  IF p >= Len(s) THEN p
  ELSE CHOOSE q \in p..Len(s) :
         /\ \A r \in p..(q - 1) : s[r + 1] \in S
         /\ (q = Len(s) \/ s[q + 1] \notin S)

\* the characters of s at positions p .. q-1
Slice(s, p, q) == [i \in 1..(q - p) |-> s[p + i]]

Token(type, value, st, p) ==
  [type |-> type, value |-> value,
   line |-> st.line, column |-> st.column, position |-> p]

Push(st, type, value, p) ==
  [st EXCEPT !.pos = p, !.tokens = Append(@, Token(type, value, st, p))]

LexerInit == [pos |-> 0, line |-> 1, column |-> 1, tokens |-> <<>>, err |-> NoErr]

\* the condition of tokenize's while loop
LexMore(s, st) == CharAt(s, st.pos) # NullChar /\ st.pos < Len(s)

LexSimple(st, type, c) ==
  [st EXCEPT !.tokens = Append(@, Token(type, <<c>>, st, st.pos)),
             !.pos = LexNext(st.pos)]

\* the '//' branch
LexComment(s, st) ==
  [st EXCEPT !.pos =
     ScanWhile(s, LexNext(LexNext(st.pos)), Characters \ {"\n"})]

\* the '-' branch
LexMinus(s, st) ==
  LET p1 == LexNext(st.pos)
      p2 == ScanWhile(s, p1, Digits \cup {"."})
      n  == Slice(s, p1, p2)
      p3 == LexNext(p2)
  IN  Push(st, IF isFloat(n) THEN "Decimal" ELSE "Integer", <<"-">> \o n, p3)

\* the operator branch
LexOperator(s, st, isPowerOperator) ==
  [st EXCEPT
     !.tokens = Append(@, Token("BinaryOperator",
                   IF isPowerOperator THEN <<"*", "*">> ELSE <<CharAt(s, st.pos)>>,
                   st, st.pos)),
     !.pos = IF isPowerOperator THEN LexNext(LexNext(st.pos)) ELSE LexNext(st.pos)]

\* the '"' branch: the loop stops at once on the opening quote
LexString(s, st) ==
  LET p1  == ScanWhile(s, st.pos, Characters \ {"\""})
      str == Slice(s, st.pos, p1)
      a   == IF Len(str) > 0 /\ str[1] = "\"" THEN Tail(str) ELSE str
      b   == IF Len(a) > 0 /\ a[Len(a)] = "\"" THEN SubSeq(a, 1, Len(a) - 1) ELSE a
      pushed == [st EXCEPT !.tokens = Append(@, Token("String", b, st, p1))]
  IN  [pushed EXCEPT !.pos = LexNext(p1)]

\* the numeric branch taken when _isFloat(this._char)
LexDecimal(s, st) ==
  LET p1 == ScanWhile(s, st.pos, Digits \cup {"."})
  IN  Push(st, "Decimal", Slice(s, st.pos, p1), p1)

\* the numeric branch taken when _isInt(this._char)
LexInteger(s, st) ==
  LET p1 == ScanWhile(s, st.pos, Digits)
  IN  Push(st, "Integer", Slice(s, st.pos, p1), p1)

\* the alphabetic names every object literal inherits from Object.prototype
ObjectPrototype ==
  {<<"c","o","n","s","t","r","u","c","t","o","r">>, <<"t","o","S","t","r","i","n","g">>,
   <<"v","a","l","u","e","O","f">>}

\* keywords[ident]: the table's entry, an inherited function, or undefined
Reserved(ident) ==
  IF ident \in DOMAIN keywords THEN keywords[ident]
  ELSE IF ident \in ObjectPrototype THEN "Function"
  ELSE "undefined"

\* the identifier and keyword branch
LexIdent(s, st) ==
  LET p1       == ScanWhile(s, st.pos, Letters)
      ident    == Slice(s, st.pos, p1)
      reserved == Reserved(ident)
  IN  Push(st, IF reserved = "undefined" THEN "Identifier" ELSE reserved, ident, p1)

\* the whitespace branch
LexIgnorable(st, c) ==
  LET moved == IF c = "\n" \/ c = "\r" THEN [st EXCEPT !.line = @ + 1, !.column = 1]
               ELSE IF c = "\t" THEN [st EXCEPT !.column = @ + 4]
               ELSE IF c = " " THEN [st EXCEPT !.column = @ + 1]
               ELSE st
  IN  [moved EXCEPT !.pos = LexNext(st.pos)]

\* one iteration of the while loop of Lexer.tokenize
LexIter(s, st) ==
  LET c == CharAt(s, st.pos)
      isPowerOperator == c = "*" /\ CharAt(s, st.pos + 1) = "*"
  IN  IF c = "(" THEN LexSimple(st, "OpenParen", c)
      ELSE IF c = ")" THEN LexSimple(st, "CloseParen", c)
      ELSE IF c = "[" THEN LexSimple(st, "OpenBrace", c)
      ELSE IF c = "]" THEN LexSimple(st, "CloseBrace", c)
      ELSE IF c = "{" THEN LexSimple(st, "OpenBracket", c)
      ELSE IF c = "}" THEN LexSimple(st, "CloseBracket", c)
      ELSE IF c = "/" /\ CharAt(s, st.pos + 1) = "/" THEN LexComment(s, st)
      ELSE IF c = "-" THEN LexMinus(s, st)
      ELSE IF c \in basicMathOperators \/ isPowerOperator
        THEN LexOperator(s, st, isPowerOperator)
      ELSE IF c \in controlCharacters THEN LexSimple(st, controls[c], c)
      ELSE IF c = "\"" THEN LexString(s, st)
      ELSE IF isFloat(<<c>>) THEN LexDecimal(s, st)
      ELSE IF isInt(c) THEN LexInteger(s, st)
      ELSE IF isAlpha(c) THEN LexIdent(s, st)
      ELSE IF c \in ignorables THEN LexIgnorable(st, c)
      ELSE [st EXCEPT !.err = UnrecognizedTokenError(c, st.line, st.column, st.pos)]

\* the EOF token pushed after the loop
LexEOF(st) ==
  [st EXCEPT !.tokens = Append(@, Token("EOF", <<"E", "O", "F">>, st, st.pos))]

\* Lexer.tokenize: the token list, or the error raised
RECURSIVE LexLoop(_, _)
LexLoop(s, st) ==
  IF st.err.kind # "none" THEN st
  ELSE IF LexMore(s, st) THEN LexLoop(s, LexIter(s, st))
  ELSE LexEOF(st)

tokenize(s) == LexLoop(s, LexerInit)


----------------------------------------------------------------------------
(* Numbers: parseInt, parseFloat and the arithmetic of the evaluator *)

Int_(v) == [k |-> "int", v |-> v]

NaN == [k |-> "nan", v |-> 0]

DigitValue(c) ==
  CASE c = "0" -> 0 [] c = "1" -> 1 [] c = "2" -> 2 [] c = "3" -> 3
    [] c = "4" -> 4 [] c = "5" -> 5 [] c = "6" -> 6 [] c = "7" -> 7
    [] c = "8" -> 8 [] OTHER -> 9

RECURSIVE DigitsValue(_)
DigitsValue(ds) ==
  IF ds = <<>> THEN 0
  ELSE 10 * DigitsValue(SubSeq(ds, 1, Len(ds) - 1)) + DigitValue(ds[Len(ds)])

\* the longest prefix of t made of digits
DigitPrefix(t) == Slice(t, 0, ScanWhile(t, 0, Digits))

Unsigned(t) == IF Len(t) > 0 /\ t[1] \in {"-", "+"} THEN Tail(t) ELSE t

Signed(t, v) == IF Len(t) > 0 /\ t[1] = "-" THEN 0 - v ELSE v

\* parseInt(text): the sign and the leading digits, NaN without a digit
parseInt(t) ==
  LET ds == DigitPrefix(Unsigned(t))
  IN  IF ds = <<>> THEN NaN ELSE Int_(Signed(t, DigitsValue(ds)))

\* parseFloat(text): sign, digits, and one '.' with its digits
parseFloat(t) ==
  LET u  == Unsigned(t)
      ds == DigitPrefix(u)
      r  == SubSeq(u, Len(ds) + 1, Len(u))
      fs == IF Len(r) > 0 /\ r[1] = "." THEN DigitPrefix(Tail(r)) ELSE <<>>
  IN  IF ds = <<>> /\ fs = <<>> THEN NaN
      ELSE IF \E i \in 1..Len(fs) : fs[i] # "0"
        THEN [k |-> "frac", v |-> Signed(t, DigitsValue(ds))]
      ELSE Int_(Signed(t, DigitsValue(ds)))

Abs(a) == IF a < 0 THEN 0 - a ELSE a

Sign(a) == IF a < 0 THEN 0 - 1 ELSE 1

\* the quotient rounded toward zero
Trunc(a, b) == Sign(a) * Sign(b) * (Abs(a) \div Abs(b))

RECURSIVE Power(_, _)
Power(a, b) == IF b = 0 THEN 1 ELSE a * Power(a, b - 1)

\* an operand that is not an integer: the result is known only by its kind
Inexact(l, r) == IF l.k = "nan" \/ r.k = "nan" THEN NaN ELSE [k |-> "frac", v |-> 0]

----------------------------------------------------------------------------
(* Parser *)

NoNode == [kind |-> "None"]

Ok(node, p) == [node |-> node, pos |-> p, err |-> NoErr]

Fail(e, p) == [node |-> NoNode, pos |-> p, err |-> e]

\* this._token: _next leaves it on the last token once the position runs past
Tok(toks, p) == toks[(IF p > Len(toks) - 1 THEN Len(toks) - 1 ELSE p) + 1]

\* Parser._eof
Eof(toks, p) == Tok(toks, p).type = "EOF"

\* Parser._next
ParserNext(p) == p + 1

\* Parser._eat: the position after the token eaten
Eat(p) == ParserNext(p)

\* Parser._expect
Expect(toks, p, type, msg) ==
  IF Tok(toks, p).type # type THEN Fail(ParserError(msg, Tok(toks, p)), p)
  ELSE Ok(Tok(toks, p), Eat(p))

Binary(l, o, r) ==
  [kind |-> "BinaryExpression", left |-> l, operator |-> o, right |-> r]

Property(key, hasValue, value) == [key |-> key, hasValue |-> hasValue, value |-> value]

\* a raise ends the rule at once; otherwise the rule goes on with the result
Bind(r, Then(_)) == IF r.err.kind # "none" THEN r ELSE Then(r)

\* a loop iteration that began at p and ended at q without raising
Advanced(p, q, r) == IF q <= p THEN Fail(Hang, q) ELSE r

RECURSIVE parseStatement(_, _), parseDeclaration(_, _), parseExpression(_, _),
          parseObjectExpression(_, _), ObjectLoop(_, _, _),
          parseAssignmentExpression(_, _), parseAdditiveExpression(_, _),
          AdditiveLoop(_, _, _), parseMultiplicativeExpression(_, _),
          MultiplicativeLoop(_, _, _), parseCallMemberExpression(_, _),
          parseMemberExpression(_, _), MemberLoop(_, _, _),
          parseCallExpression(_, _, _), parseArguments(_, _),
          parseArgumentsList(_, _), ArgumentsLoop(_, _, _),
          parsePrimaryExpression(_, _)

\* _parsePrimaryExpression with a default case that returns a null literal
\* instead of raising
parsePrimaryExpressionLenient(toks, p) ==
  LET t == Tok(toks, p)
  IN  CASE t.type = "Identifier" ->
             Ok([kind |-> "Identifier", symbol |-> t.value], Eat(p))
        [] t.type = "Integer" ->
             Ok([kind |-> "IntegerLiteral", value |-> parseInt(t.value)], Eat(p))
        [] t.type = "Decimal" ->
             Ok([kind |-> "DecimalLiteral", value |-> parseFloat(t.value)], Eat(p))
        [] t.type = "OpenParen" ->
             Bind(parseExpression(toks, Eat(p)), LAMBDA e :
               Bind(Expect(toks, e.pos, "CloseParen", "Expected a closing parenthesis"),
                    LAMBDA c : Ok(e.node, c.pos)))
        [] t.type = "Null" -> Ok([kind |-> "NullLiteral"], Eat(p))
        [] OTHER -> Ok([kind |-> "NullLiteral"], p)

\* Parser._parsePrimaryExpression
parsePrimaryExpression(toks, p) ==
  LET t == Tok(toks, p)
  IN  CASE t.type = "Identifier" ->
             Ok([kind |-> "Identifier", symbol |-> t.value], Eat(p))
        [] t.type = "Integer" ->
             Ok([kind |-> "IntegerLiteral", value |-> parseInt(t.value)], Eat(p))
        [] t.type = "Decimal" ->
             Ok([kind |-> "DecimalLiteral", value |-> parseFloat(t.value)], Eat(p))
        [] t.type = "OpenParen" ->
             Bind(parseExpression(toks, Eat(p)), LAMBDA e :
               Bind(Expect(toks, e.pos, "CloseParen", "Expected a closing parenthesis"),
                    LAMBDA c : Ok(e.node, c.pos)))
        [] t.type = "Null" -> Ok([kind |-> "NullLiteral"], Eat(p))
        [] OTHER -> Fail(UnexpectedTokenError(t), p)

Member(o, computed, prop) ==
  [kind |-> "MemberExpression", object |-> o, computed |-> computed, property |-> prop]

\* the while loop of Parser._parseMemberExpression
MemberLoop(toks, o, p) ==
  IF Tok(toks, p).type \notin {"Dot", "OpenBrace"} THEN Ok(o, p)
  ELSE IF Tok(toks, p).type = "Dot"
    THEN Bind(parsePrimaryExpression(toks, Eat(p)), LAMBDA prop :
           IF prop.node.kind # "Identifier"
           THEN Fail(ParserError("Cannot use dot operator without a right-hand side identifier",
                                 Tok(toks, p)), prop.pos)
           ELSE Advanced(p, prop.pos,
                         MemberLoop(toks, Member(o, FALSE, prop.node), prop.pos)))
  ELSE Bind(parseExpression(toks, Eat(p)), LAMBDA prop :
         Bind(Expect(toks, prop.pos, "CloseBrace",
                     "Expected a closing brace after the computed property name"),
              LAMBDA c : Advanced(p, c.pos,
                                  MemberLoop(toks, Member(o, TRUE, prop.node), c.pos))))

\* Parser._parseMemberExpression
parseMemberExpression(toks, p) ==
  Bind(parsePrimaryExpression(toks, p), LAMBDA o : MemberLoop(toks, o.node, o.pos))

\* the while loop of Parser._parseArgumentsList
ArgumentsLoop(toks, args, p) ==
  IF Tok(toks, p).type # "Comma" THEN Ok(args, p)
  ELSE Bind(parseAssignmentExpression(toks, Eat(p)), LAMBDA a :
         Advanced(p, a.pos, ArgumentsLoop(toks, Append(args, a.node), a.pos)))

\* Parser._parseArgumentsList
parseArgumentsList(toks, p) ==
  Bind(parseAssignmentExpression(toks, p), LAMBDA a :
    ArgumentsLoop(toks, <<a.node>>, a.pos))

\* Parser._parseArguments
parseArguments(toks, p) ==
  Bind(Expect(toks, p, "OpenParen",
              "Expected an opening parenthesis before the arguments list"),
       LAMBDA o :
    Bind(IF Tok(toks, o.pos).type = "CloseParen" THEN Ok(<<>>, o.pos)
         ELSE parseArgumentsList(toks, o.pos),
         LAMBDA args :
      Bind(Expect(toks, args.pos, "CloseParen",
                  "Expected a closing parenthesis after the arguments list"),
           LAMBDA c : Ok(args.node, c.pos))))

Call(caller, arguments) ==
  [kind |-> "CallExpression", caller |-> caller, arguments |-> arguments]

\* Parser._parseCallExpression
parseCallExpression(toks, callerArg, p) ==
  Bind(parseArguments(toks, p), LAMBDA args :
    IF Tok(toks, args.pos).type = "OpenParen"
    THEN parseCallExpression(toks, Call(callerArg, args.node), args.pos)
    ELSE Ok(Call(callerArg, args.node), args.pos))

\* Parser._parseCallMemberExpression
parseCallMemberExpression(toks, p) ==
  Bind(parseMemberExpression(toks, p), LAMBDA m :
    IF Tok(toks, m.pos).type = "OpenParen"
    THEN parseCallExpression(toks, m.node, m.pos)
    ELSE m)

\* the while loop of Parser._parseMultiplicativeExpression
MultiplicativeLoop(toks, l, p) ==
  IF Tok(toks, p).value \notin {<<"*">>, <<"*", "*">>, <<"/">>, <<"%">>} THEN Ok(l, p)
  ELSE Bind(parseCallMemberExpression(toks, Eat(p)), LAMBDA r :
         Advanced(p, r.pos,
                  MultiplicativeLoop(toks, Binary(l, Tok(toks, p).value, r.node), r.pos)))

\* Parser._parseMultiplicativeExpression
parseMultiplicativeExpression(toks, p) ==
  Bind(parseCallMemberExpression(toks, p), LAMBDA l :
    MultiplicativeLoop(toks, l.node, l.pos))

\* the while loop of Parser._parseAdditiveExpression
AdditiveLoop(toks, l, p) ==
  IF Tok(toks, p).value \notin {<<"+">>, <<"-">>} THEN Ok(l, p)
  ELSE Bind(parseMultiplicativeExpression(toks, Eat(p)), LAMBDA r :
         Advanced(p, r.pos,
                  AdditiveLoop(toks, Binary(l, Tok(toks, p).value, r.node), r.pos)))

\* Parser._parseAdditiveExpression
parseAdditiveExpression(toks, p) ==
  Bind(parseMultiplicativeExpression(toks, p), LAMBDA l :
    AdditiveLoop(toks, l.node, l.pos))

\* the while loop of Parser._parseObjectExpression
ObjectLoop(toks, props, p) ==
  IF Eof(toks, p) \/ Tok(toks, p).type = "CloseBracket" THEN Ok(props, p)
  ELSE
    Bind(Expect(toks, p, "Identifier", "Object literal property must have a key"),
         LAMBDA key :
      IF Tok(toks, key.pos).type = "Comma"
      THEN Advanced(p, Eat(key.pos),
             ObjectLoop(toks, Append(props, Property(key.node.value, FALSE, NoNode)),
                        Eat(key.pos)))
      ELSE IF Tok(toks, key.pos).type = "CloseBracket"
      THEN Advanced(p, key.pos,
             ObjectLoop(toks, Append(props, Property(key.node.value, FALSE, NoNode)),
                        key.pos))
      ELSE
        Bind(Expect(toks, key.pos, "Colon",
                    "Missing colon after object literal property key"),
             LAMBDA colon :
          Bind(parseExpression(toks, colon.pos), LAMBDA value :
            Bind(IF Tok(toks, value.pos).type # "CloseBracket"
                 THEN Expect(toks, value.pos, "Comma",
                             "Object literal properties must be separated by a comma")
                 ELSE Ok(NoNode, value.pos),
                 LAMBDA sep :
              Advanced(p, sep.pos,
                ObjectLoop(toks,
                           Append(props, Property(key.node.value, TRUE, value.node)),
                           sep.pos))))))

\* _parseObjectExpression opening the literal on the token of '['
parseObjectExpressionOnBrace(toks, p) ==
  IF Tok(toks, p).type # "OpenBrace" THEN parseAdditiveExpression(toks, p)
  ELSE Bind(ObjectLoop(toks, <<>>, Eat(p)), LAMBDA props :
         Bind(Expect(toks, props.pos, "CloseBracket",
                     "Object literal must end with a closing Bracket"),
              LAMBDA c : Ok([kind |-> "ObjectLiteral", properties |-> props.node],
                            c.pos)))

\* Parser._parseObjectExpression
parseObjectExpression(toks, p) ==
  IF Tok(toks, p).type # "OpenBracket" THEN parseAdditiveExpression(toks, p)
  ELSE Bind(ObjectLoop(toks, <<>>, Eat(p)), LAMBDA props :
         Bind(Expect(toks, props.pos, "CloseBracket",
                     "Object literal must end with a closing Bracket"),
              LAMBDA c : Ok([kind |-> "ObjectLiteral", properties |-> props.node],
                            c.pos)))

\* Parser._parseAssignmentExpression
parseAssignmentExpression(toks, p) ==
  Bind(parseObjectExpression(toks, p), LAMBDA left :
    IF Tok(toks, left.pos).type = "Equals"
    THEN Bind(parseAssignmentExpression(toks, Eat(left.pos)), LAMBDA value :
           Ok([kind |-> "AssignmentExpression", target |-> left.node,
               value |-> value.node], value.pos))
    ELSE left)

\* Parser._parseExpression
parseExpression(toks, p) == parseAssignmentExpression(toks, p)

Declaration(constant, varname, hasValue, value) ==
  [kind |-> "VariableDeclaration", constant |-> constant, varname |-> varname,
   hasValue |-> hasValue, value |-> value]

\* Parser._parseDeclaration
parseDeclaration(toks, p) ==
  Bind(Expect(toks, Eat(p), "Identifier", "Expected an identifier after the keyword"),
       LAMBDA id :
    IF Tok(toks, id.pos).type = "SemiColon"
    THEN IF Tok(toks, p).type = "Const"
         THEN Fail(ParserError("Constant declaration must have an initial value",
                               Tok(toks, Eat(id.pos))), Eat(id.pos))
         ELSE Ok(Declaration(FALSE, id.node.value, FALSE, NoNode), Eat(id.pos))
    ELSE
      Bind(Expect(toks, id.pos, "Equals",
                  "Expected an equals sign after the variable name"),
           LAMBDA eq :
        Bind(parseExpression(toks, eq.pos), LAMBDA value :
          Bind(Expect(toks, value.pos, "SemiColon",
                      "Expected a semicolon after the variable declaration"),
               LAMBDA semi :
            Ok(Declaration(Tok(toks, p).type = "Const", id.node.value, TRUE,
                           value.node), semi.pos)))))

\* Parser._parseStatement
parseStatement(toks, p) ==
  IF Tok(toks, p).type \in {"Let", "Const"} THEN parseDeclaration(toks, p)
  ELSE parseExpression(toks, p)

\* the Parser as constructed on a token list
ParserInit == [pos |-> 0, body |-> <<>>, err |-> NoErr]

\* p.body.push(statement), or the raise of the statement
Pushed(ps, s) ==
  IF s.err.kind # "none" THEN [ps EXCEPT !.pos = s.pos, !.err = s.err]
  ELSE [ps EXCEPT !.pos = s.pos, !.body = Append(@, s.node)]

\* one iteration of the while loop of Parser.parse
ParseIter(toks, ps) == Pushed(ps, parseStatement(toks, ps.pos))

\* the statement parsed from ps.pos left the parser in n
Progressed(ps, n) ==
  IF n.err.kind = "none" /\ n.pos <= ps.pos THEN [n EXCEPT !.err = Hang] ELSE n

\* Parser.parse: the Program body, or the error raised
RECURSIVE ParseLoop(_, _)
ParseLoop(toks, ps) ==
  IF ps.err.kind # "none" \/ Eof(toks, ps.pos) THEN ps
  ELSE ParseLoop(toks, Progressed(ps, ParseIter(toks, ps)))

\* the Parser constructor raises what tokenize raises
Parsed(l) ==
  IF l.err.kind # "none" THEN [ParserInit EXCEPT !.err = l.err]
  ELSE ParseLoop(l.tokens, ParserInit)

\* new Parser(source).parse()
parse(s) == Parsed(tokenize(s))


----------------------------------------------------------------------------
(* Runtime values.  ro is the readonly field: "T", "F", or "U" when the    *)
(* object literal that built the value has no such field.                  *)

Value(type, ro) ==
  [type |-> type, ro |-> ro, num |-> Int_(0), bool |-> FALSE,
   props |-> <<>>, handler |-> ""]

MAKE_NULL(ro) == Value("null", ro)

MAKE_BOOL(b, ro) == [Value("boolean", ro) EXCEPT !.bool = b]

MAKE_NUMBER(n, ro) == [Value("number", ro) EXCEPT !.num = n]

MAKE_NATIVE_METHOD(h, ro) == [Value("native_function", ro) EXCEPT !.handler = h]

MAKE_OBJECT(props, ro) == [Value("object", ro) EXCEPT !.props = props]

\* { type: 'number', value } as the evaluator writes it: no readonly field
Number(n) == MAKE_NUMBER(Int_(n), "U")

----------------------------------------------------------------------------
(* Environment: a chain of scopes, env[1] the root, env[i - 1] the parent  *)
(* of env[i].  A scope is a function from the names it declares.           *)

Put(f, k, v) == [x \in (DOMAIN f) \cup {k} |-> IF x = k THEN v ELSE f[x]]

EmptyScope == <<>>

Has(E, i, name) == name \in DOMAIN E[i]

Outcome(E, val, err) == [env |-> E, val |-> val, err |-> err, calls |-> <<>>]

\* declare without the check for a name the scope already has
declareOverwrites(E, i, name, value, readonly) ==
  LET v == IF value.ro = "U" /\ readonly # "U"
           THEN [value EXCEPT !.ro = readonly] ELSE value
  IN  Outcome([E EXCEPT ![i] = Put(@, name, v)], v, NoErr)

\* Environment.declare
declare(E, i, name, value, readonly) ==
  IF Has(E, i, name) THEN Outcome(E, MAKE_NULL("F"), Exception("Cannot redeclare variable", name))
  ELSE LET v == IF value.ro = "U" /\ readonly # "U"
                THEN [value EXCEPT !.ro = readonly] ELSE value
       IN  Outcome([E EXCEPT ![i] = Put(@, name, v)], v, NoErr)

\* Environment.resolve: the owning scope, 0 when it raises; the parent is asked
\* without the caller's message
RECURSIVE resolve(_, _, _, _)
resolve(E, i, name, error) ==
  IF Has(E, i, name) THEN [scope |-> i, err |-> NoErr]
  ELSE IF i = 1 THEN [scope |-> 0, err |-> Exception(error, name)]
  ELSE resolve(E, i - 1, name, "Undefined variable")

\* assign writing the slot of the scope it is called on, not of the owner
assignInCallingScope(E, i, name, value) ==
  LET r == resolve(E, i, name, "Cannot assing to undefined variable")
  IN  IF r.err.kind # "none" THEN Outcome(E, MAKE_NULL("F"), r.err)
      ELSE IF E[r.scope][name].ro = "T"
        THEN Outcome(E, MAKE_NULL("F"), Exception("Cannot assign constant variable", name))
      ELSE Outcome([E EXCEPT ![i] = Put(@, name, value)], value, NoErr)

\* Environment.assign
assign(E, i, name, value) ==
  LET r == resolve(E, i, name, "Cannot assing to undefined variable")
  IN  IF r.err.kind # "none" THEN Outcome(E, MAKE_NULL("F"), r.err)
      ELSE IF E[r.scope][name].ro = "T"
        THEN Outcome(E, MAKE_NULL("F"), Exception("Cannot assign constant variable", name))
      ELSE Outcome([E EXCEPT ![r.scope] = Put(@, name, value)], value, NoErr)

\* Environment.lookup
lookup(E, i, name) ==
  LET r == resolve(E, i, name, "Undefined variable")
  IN  IF r.err.kind # "none" THEN Outcome(E, MAKE_NULL("F"), r.err)
      ELSE Outcome(E, E[r.scope][name], NoErr)

\* createGlobalEnvironment with printf made by MAKE_NATIVE_METHOD's default,
\* readonly false
createGlobalEnvironmentOpenPrintf ==
  LET e0 == <<EmptyScope>>
      e1 == declare(e0, 1, <<"n","u","l","l">>, MAKE_NULL("T"), "U").env
      e2 == declare(e1, 1, <<"t","r","u","e">>, MAKE_BOOL(TRUE, "T"), "U").env
      e3 == declare(e2, 1, <<"f","a","l","s","e">>, MAKE_BOOL(FALSE, "T"), "U").env
      e4 == declare(e3, 1, <<"p","r","i","n","t","f">>,
                    MAKE_NATIVE_METHOD("printf", "F"), "U").env
      e5 == declare(e4, 1, <<"p","r","i","n","t">>,
                    MAKE_NATIVE_METHOD("print", "T"), "T").env
  IN  declare(e5, 1, <<"m","a","t","h">>, MAKE_OBJECT(<<>>, "T"), "T").env

\* createGlobalEnvironment()
createGlobalEnvironment ==
  LET e0 == <<EmptyScope>>
      e1 == declare(e0, 1, <<"n","u","l","l">>, MAKE_NULL("T"), "U").env
      e2 == declare(e1, 1, <<"t","r","u","e">>, MAKE_BOOL(TRUE, "T"), "U").env
      e3 == declare(e2, 1, <<"f","a","l","s","e">>, MAKE_BOOL(FALSE, "T"), "U").env
      e4 == declare(e3, 1, <<"p","r","i","n","t","f">>,
                    MAKE_NATIVE_METHOD("printf", "T"), "U").env
      e5 == declare(e4, 1, <<"p","r","i","n","t">>,
                    MAKE_NATIVE_METHOD("print", "T"), "T").env
  IN  declare(e5, 1, <<"m","a","t","h">>, MAKE_OBJECT(<<>>, "T"), "T").env

----------------------------------------------------------------------------
(* Evaluator *)

\* the handlers createGlobalEnvironment binds: what they return or raise
invokableHandler(h, E, args) ==
  IF h = "print" /\ Len(args) > 1
  THEN Outcome(E, MAKE_NULL("F"), Exception("print() takes only one argument", <<>>))
  ELSE [Outcome(E, MAKE_NULL("F"), NoErr) EXCEPT !.calls = <<[handler |-> h, args |-> args]>>]

\* _evalNumericExpr
evalNumericExpr(l, r, operator) ==
  LET a == l.v
      b == r.v
      n == IF l.k # "int" \/ r.k # "int" THEN Inexact(l, r)
           ELSE CASE operator = <<"+">> -> Int_(a + b)
                  [] operator = <<"-">> -> Int_(a - b)
                  [] operator = <<"*">> -> Int_(a * b)
                  [] operator = <<"/">> ->
                       IF b = 0 THEN (IF a = 0 THEN NaN ELSE [k |-> "inf", v |-> Sign(a)])
                       ELSE IF Trunc(a, b) * b = a THEN Int_(Trunc(a, b))
                       ELSE [k |-> "frac", v |-> Trunc(a, b)]
                  [] operator = <<"%">> ->
                       IF b = 0 THEN NaN ELSE Int_(a - b * Trunc(a, b))
                  [] operator = <<"*", "*">> ->
                       IF b >= 0 THEN Int_(Power(a, b))
                       ELSE IF a = 0 THEN [k |-> "inf", v |-> 1]
                       ELSE IF Abs(a) = 1 THEN Int_(Power(a, 0 - b))
                       ELSE [k |-> "frac", v |-> 0]
                  [] OTHER -> NaN
  IN  IF operator \notin {<<"+">>, <<"-">>, <<"*">>, <<"/">>, <<"%">>, <<"*", "*">>}
      THEN [val |-> MAKE_NULL("F"), err |-> Exception("Unknown operator", operator)]
      ELSE [val |-> MAKE_NUMBER(n, "U"), err |-> NoErr]

\* a raise ends the evaluation at once; otherwise it goes on with the result,
\* the handlers called so far before those called next
Do(r, Then(_)) ==
  IF r.err.kind # "none" THEN r ELSE [Then(r) EXCEPT !.calls = r.calls \o @]

Numeric(E, n) == Outcome(E, n.val, n.err)

RECURSIVE evaluate(_, _, _), evalBinaryExpr(_, _, _), evalProgram(_, _, _, _, _),
          evalDeclaration(_, _, _), evalAssignment(_, _, _),
          evalObject(_, _, _, _, _), evalArguments(_, _, _, _, _),
          evalCall(_, _, _)

\* _evalBinaryExpr evaluating the right operand before the left one
evalBinaryExprRightFirst(o, E, i) ==
  Do(evaluate(o.right, E, i), LAMBDA rhs :
    Do(evaluate(o.left, rhs.env, i), LAMBDA lhs :
      IF lhs.val.type = "number" /\ rhs.val.type = "number"
      THEN Numeric(lhs.env, evalNumericExpr(lhs.val.num, rhs.val.num, o.operator))
      ELSE Outcome(lhs.env, MAKE_NULL("F"), NoErr)))

\* _evalBinaryExpr
evalBinaryExpr(o, E, i) ==
  Do(evaluate(o.left, E, i), LAMBDA lhs :
    Do(evaluate(o.right, lhs.env, i), LAMBDA rhs :
      IF lhs.val.type = "number" /\ rhs.val.type = "number"
      THEN Numeric(rhs.env, evalNumericExpr(lhs.val.num, rhs.val.num, o.operator))
      ELSE Outcome(rhs.env, MAKE_NULL("F"), NoErr)))

\* _evalProgram going on with the next statement after one that raised
evalProgramResuming(body, k, lo, E, i) ==
  IF k > Len(body) THEN Outcome(E, lo, NoErr)
  ELSE LET r == evaluate(body[k], E, i)
       IN  IF r.err.kind # "none" /\ k = Len(body) THEN r
           ELSE evalProgram(body, k + 1, r.val, r.env, i)

\* _evalProgram: the statements from the k-th on, lo the value so far
evalProgram(body, k, lo, E, i) ==
  IF k > Len(body) THEN Outcome(E, lo, NoErr)
  ELSE Do(evaluate(body[k], E, i), LAMBDA r :
         evalProgram(body, k + 1, r.val, r.env, i))

\* _evalIdent
evalIdent(ident, E, i) == lookup(E, i, ident.symbol)

\* _evalDeclaration
evalDeclaration(v, E, i) ==
  Do(IF v.hasValue THEN evaluate(v.value, E, i)
     ELSE Outcome(E, MAKE_NULL(IF v.constant THEN "T" ELSE "F"), NoErr),
     LAMBDA value : declare(value.env, i, v.varname, value.val, "U"))

\* _evalAssignment
evalAssignment(node, E, i) ==
  IF node.target.kind # "Identifier"
  THEN Outcome(E, MAKE_NULL("F"),
               Exception("The target of an assignment must be an identifier", <<>>))
  ELSE Do(evaluate(node.value, E, i), LAMBDA value :
         assign(value.env, i, node.target.symbol, value.val))

\* _evalObject with a shorthand property mapped to Null, not looked up
evalObjectShorthandNull(properties, k, o, E, i) ==
  IF k > Len(properties) THEN Outcome(E, MAKE_OBJECT(o, "U"), NoErr)
  ELSE Do(IF properties[k].hasValue THEN evaluate(properties[k].value, E, i)
          ELSE Outcome(E, MAKE_NULL("F"), NoErr),
          LAMBDA v : evalObject(properties, k + 1, Put(o, properties[k].key, v.val),
                                v.env, i))

\* _evalObject: the properties from the k-th on, o the Map so far
evalObject(properties, k, o, E, i) ==
  IF k > Len(properties) THEN Outcome(E, MAKE_OBJECT(o, "U"), NoErr)
  ELSE Do(IF properties[k].hasValue THEN evaluate(properties[k].value, E, i)
          ELSE lookup(E, i, properties[k].key),
          LAMBDA v : evalObject(properties, k + 1, Put(o, properties[k].key, v.val),
                                v.env, i))

\* expr.arguments.map(arg => evaluate(arg, env)): from the k-th on
evalArguments(arguments, k, acc, E, i) ==
  IF k > Len(arguments) THEN Outcome(E, acc, NoErr)
  ELSE Do(evaluate(arguments[k], E, i), LAMBDA a :
         evalArguments(arguments, k + 1, Append(acc, a.val), a.env, i))

\* _evalCall
evalCall(expr, E, i) ==
  Do(evalArguments(expr.arguments, 1, <<>>, E, i), LAMBDA args :
    IF expr.caller.kind # "Identifier"
    THEN Outcome(args.env, MAKE_NULL("F"),
           Exception("The caller of a call expression must be an identifier", <<>>))
    ELSE Do(evaluate(expr.caller, args.env, i), LAMBDA f :
           IF f.val.type # "native_function"
           THEN Outcome(f.env, MAKE_NULL("F"),
                        Exception("Failed to invoke handler", expr.caller.symbol))
           ELSE invokableHandler(f.val.handler, f.env, args.val)))

\* evaluate
evaluate(node, E, i) ==
  CASE node.kind = "IntegerLiteral" -> Outcome(E, MAKE_NUMBER(node.value, "U"), NoErr)
    [] node.kind = "DecimalLiteral" -> Outcome(E, MAKE_NUMBER(node.value, "U"), NoErr)
    [] node.kind = "NullLiteral" -> Outcome(E, MAKE_NULL("F"), NoErr)
    [] node.kind = "BinaryExpression" -> evalBinaryExpr(node, E, i)
    [] node.kind = "Identifier" -> evalIdent(node, E, i)
    [] node.kind = "VariableDeclaration" -> evalDeclaration(node, E, i)
    [] node.kind = "AssignmentExpression" -> evalAssignment(node, E, i)
    [] node.kind = "ObjectLiteral" -> evalObject(node.properties, 1, <<>>, E, i)
    [] node.kind = "CallExpression" -> evalCall(node, E, i)
    [] node.kind = "Program" -> evalProgram(node.body, 1, MAKE_NULL("F"), E, i)
    [] OTHER -> Outcome(E, MAKE_NULL("F"),
                        Exception("The node is not yet implemented in the interpreter", <<>>))

\* evaluate(ast, e), unless the parser raised
Evaluated(p, E) ==
  IF p.err.kind # "none" THEN Outcome(E, MAKE_NULL("F"), p.err)
  ELSE evaluate([kind |-> "Program", body |-> p.body], E, 1)

\* main.ts: new Parser(input).parse(), then evaluate(ast, e)
interpret(s, E) == Evaluated(parse(s), E)


----------------------------------------------------------------------------
(* The sources evaluated in a session, by their text *)

Source ==
     ("const y = 1;" :> <<"c", "o", "n", "s", "t", " ", "y", " ", "=", " ", "1", ";">>)
  @@ ("y = 2;" :> <<"y", " ", "=", " ", "2", ";">>)
  @@ ("y = 2" :> <<"y", " ", "=", " ", "2">>)
  @@ ("let x = 2 + 3;" :> <<"l", "e", "t", " ", "x", " ", "=", " ", "2", " ", "+", " ", "3", ";">>)
  @@ ("x;" :> <<"x", ";">>)
  @@ ("x" :> <<"x">>)
  @@ ("2 + 3 * 4;" :> <<"2", " ", "+", " ", "3", " ", "*", " ", "4", ";">>)
  @@ ("2 + 3 * 4" :> <<"2", " ", "+", " ", "3", " ", "*", " ", "4">>)
  @@ ("(2 + 3) * 4;" :> <<"(", "2", " ", "+", " ", "3", ")", " ", "*", " ", "4", ";">>)
  @@ ("(2 + 3) * 4" :> <<"(", "2", " ", "+", " ", "3", ")", " ", "*", " ", "4">>)
  @@ ("2 * 3 ** 2;" :> <<"2", " ", "*", " ", "3", " ", "*", "*", " ", "2", ";">>)
  @@ ("2 * 3 ** 2" :> <<"2", " ", "*", " ", "3", " ", "*", "*", " ", "2">>)
  @@ ("zzz;" :> <<"z", "z", "z", ";">>)
  @@ ("zzz" :> <<"z", "z", "z">>)
  @@ ("zzz(x = 9)" :> <<"z", "z", "z", "(", "x", " ", "=", " ", "9", ")">>)
  @@ ("x(x = 9)" :> <<"x", "(", "x", " ", "=", " ", "9", ")">>)
  @@ ("1(x = 9)" :> <<"1", "(", "x", " ", "=", " ", "9", ")">>)
  @@ ("print(x = 9)" :> <<"p", "r", "i", "n", "t", "(", "x", " ", "=", " ", "9", ")">>)
  @@ ("printf(x = 1, x = 2)" :> <<"p", "r", "i", "n", "t", "f", "(", "x", " ", "=", " ", "1", ",", " ", "x", " ", "=", " ", "2", ")">>)
  @@ ("let a = 7;" :> <<"l", "e", "t", " ", "a", " ", "=", " ", "7", ";">>)
  @@ ("{a}" :> <<"{", "a", "}">>)
  @@ ("{a, b: 2 + 3}" :> <<"{", "a", ",", " ", "b", ":", " ", "2", " ", "+", " ", "3", "}">>)
  @@ ("{q}" :> <<"{", "q", "}">>)
  @@ ("true = 1" :> <<"t", "r", "u", "e", " ", "=", " ", "1">>)
  @@ ("false = 1" :> <<"f", "a", "l", "s", "e", " ", "=", " ", "1">>)
  @@ ("print = 1" :> <<"p", "r", "i", "n", "t", " ", "=", " ", "1">>)
  @@ ("printf = 1" :> <<"p", "r", "i", "n", "t", "f", " ", "=", " ", "1">>)
  @@ ("math = 1" :> <<"m", "a", "t", "h", " ", "=", " ", "1">>)
  @@ ("null = 1" :> <<"n", "u", "l", "l", " ", "=", " ", "1">>)
  @@ ("let true = 1;" :> <<"l", "e", "t", " ", "t", "r", "u", "e", " ", "=", " ", "1", ";">>)
  @@ ("let math = 1;" :> <<"l", "e", "t", " ", "m", "a", "t", "h", " ", "=", " ", "1", ";">>)
  @@ ("let print = 1;" :> <<"l", "e", "t", " ", "p", "r", "i", "n", "t", " ", "=", " ", "1", ";">>)
  @@ ("let y = true;" :> <<"l", "e", "t", " ", "y", " ", "=", " ", "t", "r", "u", "e", ";">>)
  @@ ("let y = print;" :> <<"l", "e", "t", " ", "y", " ", "=", " ", "p", "r", "i", "n", "t", ";">>)
  @@ ("(x = 7) + x" :> <<"(", "x", " ", "=", " ", "7", ")", " ", "+", " ", "x">>)
  @@ ("x + (x = 7)" :> <<"x", " ", "+", " ", "(", "x", " ", "=", " ", "7", ")">>)
  @@ ("true + (x = 7)" :> <<"t", "r", "u", "e", " ", "+", " ", "(", "x", " ", "=", " ", "7", ")">>)
  @@ ("(x = 7) * print" :> <<"(", "x", " ", "=", " ", "7", ")", " ", "*", " ", "p", "r", "i", "n", "t">>)
  @@ ("print(1) + (x = 7)" :> <<"p", "r", "i", "n", "t", "(", "1", ")", " ", "+", " ", "(", "x", " ", "=", " ", "7", ")">>)
  @@ ("(x = 7) + print(x)" :> <<"(", "x", " ", "=", " ", "7", ")", " ", "+", " ", "p", "r", "i", "n", "t", "(", "x", ")">>)
  @@ ("" :> <<>>)
  @@ ("let a = 7; a" :> <<"l", "e", "t", " ", "a", " ", "=", " ", "7", ";", " ", "a">>)
  @@ ("let a = 7; zzz let b = 1;" :> <<"l", "e", "t", " ", "a", " ", "=", " ", "7", ";", " ", "z", "z", "z", " ", "l", "e", "t", " ", "b", " ", "=", " ", "1", ";">>)
  @@ ("let b = 1; let a = 7; let a = 8; let x = 1;" :> <<"l", "e", "t", " ", "b", " ", "=", " ", "1", ";", " ", "l", "e", "t", " ", "a", " ", "=", " ", "7", ";", " ", "l", "e", "t", " ", "a", " ", "=", " ", "8", ";", " ", "l", "e", "t", " ", "x", " ", "=", " ", "1", ";">>)
  @@ ("let x = (x = 9);" :> <<"l", "e", "t", " ", "x", " ", "=", " ", "(", "x", " ", "=", " ", "9", ")", ";">>)
  @@ ("let z = (x = 9) + zzz;" :> <<"l", "e", "t", " ", "z", " ", "=", " ", "(", "x", " ", "=", " ", "9", ")", " ", "+", " ", "z", "z", "z", ";">>)
  @@ ("let z = zzz;" :> <<"l", "e", "t", " ", "z", " ", "=", " ", "z", "z", "z", ";">>)

Text(id) == Source[id]

\* a name as the lexer spells it
Name(id) == Text(id)

----------------------------------------------------------------------------
(* The native math library: Vector, Vector2D and Point instances with      *)
(* their #freezed field, Point.fromVector, relu and the closure returned   *)
(* by createArithmeticAverager.                                            *)

\* the JavaScript operators + - * / on numbers
Arith(a, b, o) == evalNumericExpr(a, b, o).val.num

Plus(a, b) == Arith(a, b, <<"+">>)

Minus(a, b) == Arith(a, b, <<"-">>)

Times(a, b) == Arith(a, b, <<"*">>)

Divide(a, b) == Arith(a, b, <<"/">>)

\* Math.sqrt
Sqrt(n) ==
  IF n.k = "nan" \/ (n.k \in {"int", "frac"} /\ n.v < 0) THEN NaN
  ELSE IF n.k # "int" THEN n
  ELSE LET r == CHOOSE q \in 0..n.v : q * q <= n.v /\ (q + 1) * (q + 1) > n.v
       IN  IF r * r = n.v THEN Int_(r) ELSE [k |-> "frac", v |-> r]

\* an instance: the class, the private fields #x, #y, #z (Vector only), #freezed
Instance(cls, x, y, z) == [cls |-> cls, x |-> x, y |-> y, z |-> z, freezed |-> FALSE]

\* new Vector(x, y, z)
Vector(x, y, z) == Instance("Vector", x, y, z)

\* new Vector2D(x, y)
Vector2D(x, y) == Instance("Vector2D", x, y, Int_(0))

\* new Point(x, y)
Point(x, y) == Instance("Point", x, y, Int_(0))

NoInstance == Instance("none", Int_(0), Int_(0), Int_(0))

\* what a call gives: the message of the Exception thrown ("" when it returns),
\* the number or the instance returned
Throws(msg) == [threw |-> msg, num |-> NaN, inst |-> NoInstance]

ReturnsVoid == [threw |-> "", num |-> NaN, inst |-> NoInstance]

ReturnsNumber(n) == [threw |-> "", num |-> n, inst |-> NoInstance]

ReturnsInstance(o) == [threw |-> "", num |-> NaN, inst |-> o]

\* Vector.magnitude
VectorMagnitude(this) ==
  IF this.freezed THEN Throws("Cannot get magnitude of a freezed vector")
  ELSE ReturnsNumber(Sqrt(Plus(Plus(Times(this.x, this.x), Times(this.y, this.y)),
                               Times(this.z, this.z))))

\* Vector.normalize
VectorNormalize(this) ==
  IF this.freezed THEN Throws("Cannot normalize a freezed vector")
  ELSE LET mag == VectorMagnitude(this).num
       IN  IF mag = Int_(0) THEN Throws("Cannot normalize a zero vector")
           ELSE ReturnsInstance(Vector(Divide(this.x, mag), Divide(this.y, mag),
                                       Divide(this.z, mag)))

\* Vector.add
VectorAdd(this, vec) ==
  IF this.freezed THEN Throws("Cannot add a freezed vector")
  ELSE ReturnsInstance(Vector(Plus(this.x, vec.x), Plus(this.y, vec.y), Plus(this.z, vec.z)))

\* Vector.subtract
VectorSubtract(this, vec) ==
  IF this.freezed THEN Throws("Cannot subtract a freezed vector")
  ELSE ReturnsInstance(Vector(Minus(this.x, vec.x), Minus(this.y, vec.y),
                              Minus(this.z, vec.z)))

\* Vector.dot
VectorDot(this, vec) ==
  IF this.freezed THEN Throws("Cannot dot a freezed vector")
  ELSE ReturnsNumber(Plus(Plus(Times(this.x, vec.x), Times(this.y, vec.y)),
                          Times(this.z, vec.z)))

\* Vector.cross
VectorCross(this, vec) ==
  IF this.freezed THEN Throws("Cannot cross a freezed vector")
  ELSE ReturnsInstance(Vector(Minus(Times(this.y, vec.z), Times(this.z, vec.y)),
                              Minus(Times(this.z, vec.x), Times(this.x, vec.z)),
                              Minus(Times(this.x, vec.y), Times(this.y, vec.x))))

\* Vector.scale without the test of #freezed
VectorScaleUnchecked(this, scalar) ==
  ReturnsInstance(Vector(Times(this.x, scalar), Times(this.y, scalar),
                         Times(this.z, scalar)))

\* Vector.scale
VectorScale(this, scalar) ==
  IF this.freezed THEN Throws("Cannot scale a freezed vector")
  ELSE ReturnsInstance(Vector(Times(this.x, scalar), Times(this.y, scalar),
                              Times(this.z, scalar)))

\* Vector2D.magnitude
Vector2DMagnitude(this) ==
  IF this.freezed THEN Throws("Cannot get magnitude of a freezed vector")
  ELSE ReturnsNumber(Sqrt(Plus(Times(this.x, this.x), Times(this.y, this.y))))

\* Vector2D.normalize: no test for a zero magnitude
Vector2DNormalize(this) ==
  IF this.freezed THEN Throws("Cannot normalize a freezed vector")
  ELSE LET mag == Vector2DMagnitude(this).num
       IN  ReturnsInstance(Vector2D(Divide(this.x, mag), Divide(this.y, mag)))

\* Vector2D.add
Vector2DAdd(this, vec) ==
  IF this.freezed THEN Throws("Cannot add a freezed vector")
  ELSE ReturnsInstance(Vector2D(Plus(this.x, vec.x), Plus(this.y, vec.y)))

\* Vector2D.subtract
Vector2DSubtract(this, vec) ==
  IF this.freezed THEN Throws("Cannot subtract a freezed vector")
  ELSE ReturnsInstance(Vector2D(Minus(this.x, vec.x), Minus(this.y, vec.y)))

\* Vector2D.dot
Vector2DDot(this, vec) ==
  IF this.freezed THEN Throws("Cannot dot a freezed vector")
  ELSE ReturnsNumber(Plus(Times(this.x, vec.x), Times(this.y, vec.y)))

\* Vector2D.scale
Vector2DScale(this, scalar) ==
  IF this.freezed THEN Throws("Cannot scale a freezed vector")
  ELSE ReturnsInstance(Vector2D(Times(this.x, scalar), Times(this.y, scalar)))

\* Point.add
PointAdd(this, point) ==
  IF this.freezed THEN Throws("Cannot add to frozen point")
  ELSE ReturnsInstance(Point(Plus(this.x, point.x), Plus(this.y, point.y)))

\* Point.subtract
PointSubtract(this, point) ==
  IF this.freezed THEN Throws("Cannot subtract from frozen point")
  ELSE ReturnsInstance(Point(Minus(this.x, point.x), Minus(this.y, point.y)))

\* Point.scale
PointScale(this, scalar) ==
  IF this.freezed THEN Throws("Cannot scale frozen point")
  ELSE ReturnsInstance(Point(Times(this.x, scalar), Times(this.y, scalar)))

\* freeze() of the three classes
freeze(this) == [this EXCEPT !.freezed = TRUE]

\* the method of this's class with that name
Method(this, name, arg) ==
  CASE this.cls = "Vector" /\ name = "magnitude" -> VectorMagnitude(this)
    [] this.cls = "Vector" /\ name = "normalize" -> VectorNormalize(this)
    [] this.cls = "Vector" /\ name = "add" -> VectorAdd(this, arg)
    [] this.cls = "Vector" /\ name = "subtract" -> VectorSubtract(this, arg)
    [] this.cls = "Vector" /\ name = "dot" -> VectorDot(this, arg)
    [] this.cls = "Vector" /\ name = "cross" -> VectorCross(this, arg)
    [] this.cls = "Vector" /\ name = "scale" -> VectorScale(this, arg)
    [] this.cls = "Vector2D" /\ name = "magnitude" -> Vector2DMagnitude(this)
    [] this.cls = "Vector2D" /\ name = "normalize" -> Vector2DNormalize(this)
    [] this.cls = "Vector2D" /\ name = "add" -> Vector2DAdd(this, arg)
    [] this.cls = "Vector2D" /\ name = "subtract" -> Vector2DSubtract(this, arg)
    [] this.cls = "Vector2D" /\ name = "dot" -> Vector2DDot(this, arg)
    [] this.cls = "Vector2D" /\ name = "scale" -> Vector2DScale(this, arg)
    [] this.cls = "Point" /\ name = "add" -> PointAdd(this, arg)
    [] this.cls = "Point" /\ name = "subtract" -> PointSubtract(this, arg)
    [] OTHER -> PointScale(this, arg)

\* the methods of a class that test #freezed
Methods(cls) ==
  CASE cls = "Vector" -> {"magnitude", "normalize", "add", "subtract", "dot", "cross", "scale"}
    [] cls = "Vector2D" -> {"magnitude", "normalize", "add", "subtract", "dot", "scale"}
    [] OTHER -> {"add", "subtract", "scale"}

\* PointFromVectorOptions; "none" and NaN stand for a field left out
Options(conversionMethod, projectionPlaneZ, focalLength) ==
  [conversionMethod |-> conversionMethod, projectionPlaneZ |-> projectionPlaneZ,
   focalLength |-> focalLength]

\* a ?? 1.0
OrOne(a) == IF a = NaN THEN Int_(1) ELSE a

\* Point.fromVector
fromVector(vec, options) ==
  IF vec.cls = "Vector2D" THEN ReturnsInstance(Point(vec.x, vec.y))
  ELSE IF vec.cls # "Vector" THEN ReturnsInstance(Point(Int_(0 - 1), Int_(0 - 1)))
  ELSE IF options.conversionMethod = "none"
    THEN IF vec.z # Int_(0) THEN Throws("Cannot convert 3D vector to 2D point")
         ELSE ReturnsInstance(Point(vec.x, vec.y))
  ELSE IF vec.z = Int_(0) THEN Throws("Cannot convert 3D vector to 2D point")
  ELSE IF options.conversionMethod = "orthographic_projection"
    THEN ReturnsInstance(Point(vec.x, vec.y))
  ELSE LET scale == Divide(OrOne(options.focalLength),
                           Plus(OrOne(options.projectionPlaneZ), vec.z))
       IN  ReturnsInstance(Point(Times(vec.x, scale), Times(vec.y, scale)))

\* Math.min(0, x)
MathMin0(x) ==
  IF x.k = "nan" THEN NaN ELSE IF x.v < 0 THEN x ELSE Int_(0)

\* relu
relu(x) == MathMin0(x)

\* the closure of createArithmeticAverager: sum and count
createArithmeticAverager == [sum |-> Int_(0), count |-> Int_(0)]

\* value && typeof value === 'number'
Truthy(value) == value # Int_(0) /\ value # NaN

\* the function createArithmeticAverager returns, called on value: the closure
\* afterwards and the number returned
Averager(c, value) ==
  LET d == IF Truthy(value)
           THEN [sum |-> Plus(c.sum, value), count |-> Plus(c.count, Int_(1))]
           ELSE c
  IN  [closure |-> d, num |-> Divide(d.sum, d.count)]

\* nothing of the library is in use
HeapIdle ==
  [obj |-> NoInstance, everFrozen |-> FALSE, closure |-> createArithmeticAverager,
   inputs |-> <<>>, op |-> "none", arg |-> NoInstance, scalar |-> NaN,
   options |-> Options("none", NaN, NaN), out |-> ReturnsVoid]

----------------------------------------------------------------------------
(* A session: sources evaluated one after the other on one global          *)
(* environment, each through new Parser(source).parse() and evaluate.      *)

MaxRuns == 2

Idle == [op |-> "none", scope |-> 0, name |-> <<>>, arg |-> MAKE_NULL("F"),
         val |-> MAKE_NULL("F"), err |-> NoErr, calls |-> <<>>]

FrontIdle ==
  /\ src = <<>>
  /\ lex = LexerInit
  /\ par = ParserInit
  /\ phase = "idle"
  /\ prevPos = [step |-> "none", pos |-> 0]

Init ==
  /\ FrontIdle
  /\ env = createGlobalEnvironment
  /\ envBefore = createGlobalEnvironment
  /\ last = Idle
  /\ hist = <<>>
  /\ heap = HeapIdle

Run(id) ==
  /\ Len(hist) < MaxRuns
  /\ LET r == interpret(Text(id), env)
     IN  /\ env' = r.env
         /\ last' = [Idle EXCEPT !.op = "run", !.scope = 1, !.val = r.val,
                                 !.err = r.err, !.calls = r.calls]
  /\ envBefore' = env
  /\ hist' = Append(hist, id)
  /\ UNCHANGED <<src, lex, par, phase, prevPos, heap>>

Next == \E id \in DOMAIN Source : Run(id)

Spec == Init /\ [][Next]_vars


----------------------------------------------------------------------------
(* The Environment class used directly: scopes are created, and declare,   *)
(* assign and lookup are called on any scope of the chain.                 *)

MaxDepth == 2

EnvNames == {<<"x">>, <<"y">>}

\* the (value, readonly argument) pairs declare is called with
EnvDeclared == {<<Number(1), "U">>, <<Number(2), "T">>}

EnvAssigned == {Number(1), Number(2)}

EnvInit ==
  /\ FrontIdle
  /\ env = <<EmptyScope>>
  /\ envBefore = <<EmptyScope>>
  /\ last = Idle
  /\ hist = <<>>
  /\ heap = HeapIdle

Called(op, i, name, arg, r) ==
  /\ env' = r.env
  /\ envBefore' = env
  /\ last' = [Idle EXCEPT !.op = op, !.scope = i, !.name = name, !.arg = arg,
                          !.val = r.val, !.err = r.err]
  /\ UNCHANGED <<src, lex, par, phase, prevPos, hist, heap>>

\* new Environment(parent), parent the innermost scope
NewChild ==
  /\ Len(env) < MaxDepth
  /\ Called("new", Len(env) + 1, <<>>, MAKE_NULL("F"),
            Outcome(Append(env, EmptyScope), MAKE_NULL("F"), NoErr))

DeclareOp(i, name, d) ==
  Called("declare", i, name, d[1], declare(env, i, name, d[1], d[2]))

AssignOp(i, name, v) == Called("assign", i, name, v, assign(env, i, name, v))

LookupOp(i, name) == Called("lookup", i, name, MAKE_NULL("F"), lookup(env, i, name))

EnvNext ==
  \/ NewChild
  \/ \E i \in 1..Len(env), name \in EnvNames, d \in EnvDeclared : DeclareOp(i, name, d)
  \/ \E i \in 1..Len(env), name \in EnvNames, v \in EnvAssigned : AssignOp(i, name, v)
  \/ \E i \in 1..Len(env), name \in EnvNames : LookupOp(i, name)

SpecEnv == EnvInit /\ [][EnvNext]_vars

----------------------------------------------------------------------------
(* The front end alone, one loop iteration at a time: the scan loop of     *)
(* Lexer.tokenize, then the statement loop of Parser.parse.                *)

MaxSrcLen == 3

FrontAlphabet == {"a", "1", "-", "*", "+", "(", ")", "{", "}", "[", "]",
                  ",", ":", ".", "=", ";", "\"", "/", " ", "\n", "\r", "#"}

ShortSources == UNION {[1..n -> FrontAlphabet] : n \in 0..MaxSrcLen}

LongSources ==
  {Source[id] : id \in DOMAIN Source} \cup
  {<<"l","e","t"," ","x",";"," ","x"," ","="," ","{","a",":","1",",","}",")">>,
   <<"c","o","n","s","t"," ","x",";">>,
   <<"f","(","a",",","b",")","(",")",".","c","[","1","]"," ","+"," ","-","2","*","3">>,
   <<"{","a",":","{","b",",","}",",","c","}","/","/","x","\n","1"," ","2","\t","3">>,
   <<"c", "o", "n", "s", "t", "r", "u", "c", "t", "o", "r">>,
   <<"t", "o", "S", "t", "r", "i", "n", "g">>,
   <<"l", "e", "t">>,
   <<"n", "u", "l", "l">>,
   <<"L", "e", "t">>,
   <<"n", "u", "l", "l", "s">>,
   <<"a", ".", "(", "a", ")">>,
   <<"a", ".", "a", ".", "a">>,
   <<"a", "[", "a", "]", "[", "1", "]">>,
   <<"a", ".", "1">>,
   <<"a", ".", "n", "u", "l", "l">>,
   <<"{", "a", "}", "[", "a", "]">>,
   <<"a", " ", "*", " ", "a", " ", "*", "*", " ", "a">>,
   <<"a", " ", "*", "*", " ", "a", " ", "*", " ", "a">>,
   <<"a", " ", "/", " ", "a", " ", "%", " ", "a">>,
   <<"a", " ", "%", " ", "a", " ", "/", " ", "a">>,
   <<"a", " ", "+", " ", "a", " ", "+", " ", "a">>,
   <<"a", " ", "-", " ", "a", " ", "-", " ", "a">>,
   <<"a", " ", "+", " ", "a", " ", "-", " ", "a">>,
   <<"1", " ", "-", "1", " ", "-", "1">>,
   <<"a", "-", "a", "-", "a">>,
   <<"a", "+", "a", "-", "a">>,
   <<"a", "*", "a", "*", "*", "a">>,
   <<"1", "-", "1", "-", "1">>,
   <<"\"", "a", "b", "\"", " ", "a">>,
   <<"\"", "a", "b">>,
   <<"1", "2", ".", "5">>,
   <<"1", ".", "2", ".", "3">>,
   <<"a", "\r", "\n", "b", "\r", "\n", "#">>,
   <<"a","\"","b","\"","%","1"," ","#">>}

FrontInit ==
  /\ src \in ShortSources \cup LongSources
  /\ lex = LexerInit
  /\ par = ParserInit
  /\ phase = "lex"
  /\ prevPos = [step |-> "none", pos |-> 0]
  /\ env = <<EmptyScope>>
  /\ envBefore = <<EmptyScope>>
  /\ last = Idle
  /\ hist = <<>>
  /\ heap = HeapIdle

\* an iteration of the while loop of tokenize
LexStep ==
  /\ phase = "lex"
  /\ LexMore(src, lex)
  /\ lex' = LexIter(src, lex)
  /\ phase' = IF lex'.err.kind # "none" THEN "raised" ELSE "lex"
  /\ prevPos' = [step |-> "lex", pos |-> lex.pos]
  /\ UNCHANGED <<src, par, env, envBefore, last, hist, heap>>

\* the loop is left: the EOF token is pushed and the Parser takes the tokens
LexEnd ==
  /\ phase = "lex"
  /\ ~LexMore(src, lex)
  /\ lex' = LexEOF(lex)
  /\ phase' = "parse"
  /\ prevPos' = [step |-> "none", pos |-> 0]
  /\ UNCHANGED <<src, par, env, envBefore, last, hist, heap>>

\* an iteration of the while loop of parse
ParseStep ==
  /\ phase = "parse"
  /\ ~Eof(lex.tokens, par.pos)
  /\ par' = ParseIter(lex.tokens, par)
  /\ phase' = IF par'.err.kind # "none" THEN "raised" ELSE "parse"
  /\ prevPos' = [step |-> "parse", pos |-> par.pos]
  /\ UNCHANGED <<src, lex, env, envBefore, last, hist, heap>>

\* the loop is left: parse returns the Program
ParseEnd ==
  /\ phase = "parse"
  /\ Eof(lex.tokens, par.pos)
  /\ phase' = "returned"
  /\ prevPos' = [step |-> "none", pos |-> 0]
  /\ UNCHANGED <<src, lex, par, env, envBefore, last, hist, heap>>

FrontNext == LexStep \/ LexEnd \/ ParseStep \/ ParseEnd

SpecFront == FrontInit /\ [][FrontNext]_vars


----------------------------------------------------------------------------
(* One instance of Vector, Vector2D or Point, on which freeze and the      *)
(* methods are called in any order.                                        *)

MaxCoord == 1

Coord == {Int_(n) : n \in (0 - MaxCoord)..MaxCoord}

Vectors == {Vector(x, y, z) : x \in Coord, y \in Coord, z \in Coord}

Vectors2D == {Vector2D(x, y) : x \in Coord, y \in Coord}

Points == {Point(x, y) : x \in Coord, y \in Coord}

\* the instances a method of an instance of class cls is given, frozen or not:
\* those with equal coordinates
Arguments(cls) ==
  LET fresh == CASE cls = "Vector" -> {Vector(c, c, c) : c \in Coord}
                 [] cls = "Vector2D" -> {Vector2D(c, c) : c \in Coord}
                 [] OTHER -> {Point(c, c) : c \in Coord}
  IN  fresh \cup {freeze(o) : o \in fresh}

OtherIdle ==
  /\ FrontIdle
  /\ env = <<EmptyScope>>
  /\ envBefore = <<EmptyScope>>
  /\ last = Idle
  /\ hist = <<>>

VectorInit ==
  /\ OtherIdle
  /\ \E o \in Vectors \cup Vectors2D \cup Points : heap = [HeapIdle EXCEPT !.obj = o]

Invoked(name, arg, scalar, out) ==
  /\ heap' = [heap EXCEPT !.op = name, !.arg = arg, !.scalar = scalar, !.out = out]
  /\ UNCHANGED <<src, lex, par, phase, env, envBefore, last, hist, prevPos>>

\* obj.freeze()
Freeze ==
  /\ heap' = [heap EXCEPT !.obj = freeze(@), !.everFrozen = TRUE, !.op = "freeze",
                          !.arg = NoInstance, !.scalar = NaN, !.out = ReturnsVoid]
  /\ UNCHANGED <<src, lex, par, phase, env, envBefore, last, hist, prevPos>>

\* obj.magnitude(), obj.normalize()
CallNullary(name) ==
  /\ name \in Methods(heap.obj.cls) \cap {"magnitude", "normalize"}
  /\ Invoked(name, NoInstance, NaN, Method(heap.obj, name, NoInstance))

\* obj.add(vec), obj.subtract(vec), obj.dot(vec), obj.cross(vec)
CallBinary(name, vec) ==
  /\ name \in Methods(heap.obj.cls) \ {"magnitude", "normalize", "scale"}
  /\ vec \in Arguments(heap.obj.cls)
  /\ Invoked(name, vec, NaN, Method(heap.obj, name, vec))

\* obj.scale(scalar)
CallScale(scalar) ==
  Invoked("scale", NoInstance, scalar, Method(heap.obj, "scale", scalar))

VectorNext ==
  \/ Freeze
  \/ \E name \in {"magnitude", "normalize"} : CallNullary(name)
  \/ \E name \in {"add", "subtract", "dot", "cross"} :
       \E vec \in Arguments(heap.obj.cls) : CallBinary(name, vec)
  \/ \E scalar \in Coord : CallScale(scalar)

SpecVector == VectorInit /\ [][VectorNext]_vars

----------------------------------------------------------------------------
(* The pure functions Point.fromVector and relu, applied to an input       *)

ConversionMethods == {"none", "orthographic_projection", "perspective_projection"}

\* a number given for projectionPlaneZ or focalLength, NaN when left out
OptionNumbers == {NaN, Int_(2)}

\* Infinity and -Infinity
Infinities == {[k |-> "inf", v |-> 1], [k |-> "inf", v |-> 0 - 1]}

PureInit ==
  /\ OtherIdle
  /\ \E vec \in Vectors \cup Vectors2D, m \in ConversionMethods,
        pz \in OptionNumbers, fl \in OptionNumbers, x \in Coord \cup Infinities :
       heap = [HeapIdle EXCEPT !.arg = vec, !.options = Options(m, pz, fl), !.scalar = x]

\* Point.fromVector(vec, options)
ApplyFromVector ==
  /\ heap.op = "none"
  /\ heap' = [heap EXCEPT !.op = "fromVector", !.out = fromVector(heap.arg, heap.options)]
  /\ UNCHANGED <<src, lex, par, phase, env, envBefore, last, hist, prevPos>>

\* relu(x)
ApplyRelu ==
  /\ heap.op = "none"
  /\ heap' = [heap EXCEPT !.op = "relu", !.out = ReturnsNumber(relu(heap.scalar))]
  /\ UNCHANGED <<src, lex, par, phase, env, envBefore, last, hist, prevPos>>

PureNext == ApplyFromVector \/ ApplyRelu

SpecPure == PureInit /\ [][PureNext]_vars

----------------------------------------------------------------------------
(* The function returned by one call of createArithmeticAverager, called   *)
(* again and again.                                                        *)

MaxCalls == 4

AveragerInit == OtherIdle /\ heap = HeapIdle

\* average(value)
Average(value) ==
  /\ Len(heap.inputs) < MaxCalls
  /\ LET r == Averager(heap.closure, value)
     IN  heap' = [heap EXCEPT !.closure = r.closure, !.inputs = Append(@, value),
                              !.op = "average", !.scalar = value,
                              !.out = ReturnsNumber(r.num)]
  /\ UNCHANGED <<src, lex, par, phase, env, envBefore, last, hist, prevPos>>

AveragerNext == \E value \in Coord : Average(value)

SpecAverager == AveragerInit /\ [][AveragerNext]_vars

----------------------------------------------------------------------------
(* Claims *)

\* the source evaluated last
Ran(id) == Len(hist) > 0 /\ hist[Len(hist)] = id

Returned == last.err.kind = "none"

IsNumber(v, n) == v.type = "number" /\ v.num = [k |-> "int", v |-> n]

Raised(msg, name) ==
  last.err.kind = "Exception" /\ last.err.msg = msg /\ last.err.name = name

Bound(E, name) == name \in DOMAIN E[1]

\* C1: after "const y = 1;" and then "y = 2;" on one environment, the second
\* evaluation raises an assignment-to-constant error and lookup("y") still
\* yields Number(1).
C1_ConstantProtection ==
  hist = <<"const y = 1;", "y = 2;">> =>
    /\ Raised("Cannot assign constant variable", <<"y">>)
    /\ Bound(env, <<"y">>)
    /\ IsNumber(lookup(env, 1, <<"y">>).val, 1)

\* C2: "let x = 2 + 3;" declares x bound to Number(5), and "x;" evaluated next
\* on the same environment returns Number(5) without raising.
C2_RoundTrip ==
  /\ hist = <<"let x = 2 + 3;">> =>
       Returned /\ Bound(env, <<"x">>) /\ IsNumber(env[1][<<"x">>], 5)
  /\ hist = <<"let x = 2 + 3;", "x;">> => Returned /\ IsNumber(last.val, 5)

\* C3: "2 + 3 * 4;" returns Number(14) and "(2 + 3) * 4;" returns Number(20).
C3_Precedence ==
  /\ Ran("2 + 3 * 4;") => Returned /\ IsNumber(last.val, 14)
  /\ Ran("(2 + 3) * 4;") => Returned /\ IsNumber(last.val, 20)

\* C4: "2 * 3 ** 2;" returns Number(18).
C4_PowerGrouping == Ran("2 * 3 ** 2;") => Returned /\ IsNumber(last.val, 18)

\* What the code does with the same expression when the ';' is left out: it
\* returns Number(36), ** sharing the tier of * and grouping to the left.
PowerGroupsLeft == Ran("2 * 3 ** 2") => Returned /\ IsNumber(last.val, 36)

\* C5: "zzz;", zzz declared in no scope, raises an undefined-variable error
\* that names zzz, not a lexer or parser error.
C5_UndefinedVariable ==
  Ran("zzz;") => Raised("Undefined variable", <<"z", "z", "z">>)

\* C6 (SpecEnv): declare(x, v) raises a redeclaration error and changes nothing
\* when the scope it is called on already declares x; otherwise it succeeds,
\* also when an ancestor declares x, changes no other scope, and afterwards
\* lookup(x) from that scope yields v and lookup(x) from its parent still yields
\* the ancestor's value.
C6_RedeclarationAndShadowing ==
  last.op = "declare" =>
    IF last.name \in DOMAIN envBefore[last.scope]
    THEN Raised("Cannot redeclare variable", last.name) /\ env = envBefore
    ELSE /\ Returned
         /\ Len(env) = Len(envBefore)
         /\ \A j \in 1..Len(env) : j # last.scope => env[j] = envBefore[j]
         /\ lookup(env, last.scope, last.name).err.kind = "none"
         /\ lookup(env, last.scope, last.name).val.num = last.arg.num
         /\ \A j \in 1..(last.scope - 1) :
              /\ last.name \in DOMAIN envBefore[j]
              /\ \A m \in (j + 1)..(last.scope - 1) : last.name \notin DOMAIN envBefore[m]
              => lookup(env, last.scope - 1, last.name).val = envBefore[j][last.name]

C6_Witness ==
  /\ last.op = "declare" /\ last.scope = 2 /\ Returned
  /\ last.name \in DOMAIN envBefore[1]
  /\ lookup(env, 2, last.name).val.num # lookup(env, 1, last.name).val.num

\* the innermost scope, from scope i outward, that declares name (0: none)
Owner(E, i, name) ==
  IF \E j \in 1..i : name \in DOMAIN E[j]
  THEN CHOOSE j \in 1..i :
         name \in DOMAIN E[j] /\ \A m \in (j + 1)..i : name \notin DOMAIN E[m]
  ELSE 0

\* C7 (SpecEnv): assign(name, value) on a scope: if the innermost scope S that
\* declares name holds a binding that is not readonly, S then maps name to value,
\* no scope gains a binding and every other binding is unchanged; if the binding
\* is readonly or no scope of the chain declares name, assign raises and every
\* binding of every scope is unchanged.
C7_AssignFrame ==
  last.op = "assign" =>
    LET S == Owner(envBefore, last.scope, last.name)
    IN  IF S # 0 /\ envBefore[S][last.name].ro # "T"
        THEN /\ Returned
             /\ Len(env) = Len(envBefore)
             /\ \A j \in 1..Len(env) : DOMAIN env[j] = DOMAIN envBefore[j]
             /\ env[S][last.name] = last.arg
             /\ \A j \in 1..Len(env) : \A n \in DOMAIN env[j] :
                  (j # S \/ n # last.name) => env[j][n] = envBefore[j][n]
        ELSE last.err.kind = "Exception" /\ env = envBefore

C7_Witness ==
  /\ last.op = "assign" /\ last.scope = 2 /\ Returned
  /\ last.name \notin DOMAIN envBefore[2]
  /\ last.name \in DOMAIN envBefore[1]
  /\ env[1][last.name] # envBefore[1][last.name]

\* C8: a call whose caller is undefined (zzz), not callable (x, a number) or not
\* an Identifier (1) raises before any argument is evaluated, so the assignment
\* in its argument has not changed the environment.
C8_CallerBeforeArguments ==
  /\ (Ran("zzz(x = 9)") \/ Ran("x(x = 9)") \/ Ran("1(x = 9)")) =>
       ~Returned /\ env = envBefore

\* C9: an object literal evaluates to an Object whose keys are the literal's
\* keys; a shorthand key k maps to the value lookup(k) yields when the literal
\* is evaluated (with a bound to 7, {a} maps "a" to Number(7)), a key with an
\* expression maps to the expression's value, and a shorthand key that no scope
\* declares raises an undefined-variable error.
C9_ObjectLiteral ==
  /\ Ran("{a}") =>
       IF Bound(envBefore, <<"a">>)
       THEN /\ Returned /\ last.val.type = "object"
            /\ DOMAIN last.val.props = {<<"a">>}
            /\ last.val.props[<<"a">>] = envBefore[1][<<"a">>]
       ELSE Raised("Undefined variable", <<"a">>)
  /\ hist = <<"let a = 7;", "{a}">> =>
       Returned /\ IsNumber(last.val.props[<<"a">>], 7)
  /\ Ran("{a, b: 2 + 3}") =>
       IF Bound(envBefore, <<"a">>)
       THEN /\ Returned /\ last.val.type = "object"
            /\ DOMAIN last.val.props = {<<"a">>, <<"b">>}
            /\ last.val.props[<<"a">>] = envBefore[1][<<"a">>]
            /\ IsNumber(last.val.props[<<"b">>], 5)
       ELSE Raised("Undefined variable", <<"a">>)
  /\ Ran("{q}") => Raised("Undefined variable", <<"q">>)
  /\ (Ran("{a}") \/ Ran("{a, b: 2 + 3}") \/ Ran("{q}")) => env = envBefore

C9_Witness ==
  /\ hist = <<"let a = 7;", "{a, b: 2 + 3}">>
  /\ Returned /\ last.val.type = "object"
  /\ IsNumber(last.val.props[<<"a">>], 7)

\* C10 (SpecFront): tokenize followed by parse terminates.  Every iteration of
\* the lexer's scan loop leaves the position strictly further or raises; every
\* statement of the parser's top-level loop consumes a token or raises; no inner
\* loop of the parser iterates without consuming a token; and the parser never
\* moves past the EOF token, so the loop's exit test is reached.
C10_FrontEndTerminates ==
  /\ prevPos.step = "lex" => lex.pos > prevPos.pos \/ lex.err.kind # "none"
  /\ prevPos.step = "parse" => par.pos > prevPos.pos \/ par.err.kind # "none"
  /\ par.err.kind # "Hang"
  /\ phase \in {"parse", "returned"} =>
       /\ lex.tokens[Len(lex.tokens)].type = "EOF"
       /\ par.pos <= Len(lex.tokens) - 1
  /\ phase = "lex" => lex.pos <= Len(src) + 1
  /\ phase = "returned" => Eof(lex.tokens, par.pos) /\ par.err.kind = "none"

C10_Witness ==
  /\ phase = "raised" /\ prevPos.step = "parse"
  /\ par.err.kind = "UnexpectedTokenError"
  /\ Len(par.body) >= 2

\* tokenize has returned its token list
LexReturned == phase \in {"parse", "returned"} \/ (phase = "raised" /\ lex.err.kind = "none")

\* tokenize has raised
LexRaised == phase = "raised" /\ lex.err.kind # "none"

\* the character is one a branch of the scan loop accepts
Matches(c) ==
  \/ c \in {"(", ")", "[", "]", "{", "}", "\""}
  \/ c \in basicMathOperators \/ c \in controlCharacters \/ c \in ignorables
  \/ isInt(c) \/ isAlpha(c)

\* the source has no comment and no string delimiter
Plain == \A i \in 1..Len(src) : src[i] \notin {"/", "\""}

\* C11 (SpecFront): tokenize is total.  On a source whose characters all match
\* a lexer rule it returns a list that ends with the only EOF token; on a source
\* with a character that matches no rule (outside any comment) it raises
\* UnrecognizedTokenError carrying that character and the line, column and
\* position the scan stood on.
C11_TokenizeTotal ==
  /\ LexReturned =>
       /\ lex.tokens[Len(lex.tokens)].type = "EOF"
       /\ \A k \in 1..(Len(lex.tokens) - 1) : lex.tokens[k].type # "EOF"
  /\ LexRaised =>
       /\ lex.err.kind = "UnrecognizedTokenError"
       /\ lex.err.name = <<CharAt(src, lex.pos)>>
       /\ ~Matches(CharAt(src, lex.pos))
       /\ lex.err.position = lex.pos
       /\ lex.err.line = lex.line /\ lex.err.column = lex.column
  /\ (phase # "lex" /\ \A i \in 1..Len(src) : Matches(src[i])) => LexReturned
  /\ (phase # "lex" /\ Plain /\ \E i \in 1..Len(src) : ~Matches(src[i])) => LexRaised

\* the texts of the tokens before the k-th, one after the other
RECURSIVE TokenText(_, _)
TokenText(toks, k) ==
  IF k = 0 THEN <<>> ELSE TokenText(toks, k - 1) \o toks[k].value

NotIgnorable(c) == c \notin ignorables

\* C19 (SpecFront): tokenize skips no source text.  For a source without
\* comments and string delimiters, the texts of the emitted tokens (the EOF
\* token left out), in order, are the source with its whitespace removed; so
\* the character after a '-' folded with its digits is tokenized.
C19_NoTextSkipped ==
  (LexReturned /\ Plain) =>
    TokenText(lex.tokens, Len(lex.tokens) - 1) = SelectSeq(src, NotIgnorable)

\* a BinaryOperator token with this text stands at source position p
OperatorAt(text, p) ==
  \E k \in 1..Len(lex.tokens) :
    /\ lex.tokens[k].type = "BinaryOperator"
    /\ lex.tokens[k].value = text
    /\ lex.tokens[k].position = p

\* C20 (SpecFront): each of + - * / % and ** is emitted as one BinaryOperator
\* token whose value is the operator's text (sources without comments and
\* string delimiters); a '-' that no digit follows yields a BinaryOperator
\* token with value "-".
C20_OperatorTokens ==
  (LexReturned /\ Plain) =>
    /\ \A k \in 1..Len(lex.tokens) :
         lex.tokens[k].type = "BinaryOperator" =>
           lex.tokens[k].value \in {<<"+">>, <<"-">>, <<"*">>, <<"/">>, <<"%">>, <<"*", "*">>}
    /\ \A i \in 1..Len(src) :
         /\ src[i] \in {"+", "%"} => OperatorAt(<<src[i]>>, i - 1)
         /\ src[i] = "*" =>
              \/ OperatorAt(<<"*">>, i - 1) \/ OperatorAt(<<"*", "*">>, i - 1)
              \/ OperatorAt(<<"*", "*">>, i - 2)
         /\ (src[i] = "-" /\ CharAt(src, i) \notin Digits) => OperatorAt(<<"-">>, i - 1)

\* the names createGlobalEnvironment seeds
GlobalNames == {<<"n","u","l","l">>, <<"t","r","u","e">>, <<"f","a","l","s","e">>,
                <<"p","r","i","n","t">>, <<"p","r","i","n","t","f">>,
                <<"m","a","t","h">>}

\* C12: in an environment built by createGlobalEnvironment, after any sequence
\* of evaluated sources (returning or raising), the global scope binds null,
\* true, false, print, printf and math to the values seeded at creation;
\* assigning to any of them raises an assignment-to-constant error and declaring
\* any of them again in the global scope raises a redeclaration error.
C12_GlobalScopeInvariant ==
  /\ \A n \in GlobalNames :
       /\ n \in DOMAIN env[1]
       /\ env[1][n] = createGlobalEnvironment[1][n]
       /\ assign(env, 1, n, Number(1)).err = Exception("Cannot assign constant variable", n)
       /\ assign(env, 1, n, Number(1)).env = env
       /\ declare(env, 1, n, Number(1), "U").err = Exception("Cannot redeclare variable", n)
       /\ declare(env, 1, n, Number(1), "U").env = env
  /\ Ran("true = 1") => Raised("Cannot assign constant variable", <<"t","r","u","e">>)
  /\ Ran("false = 1") => Raised("Cannot assign constant variable", <<"f","a","l","s","e">>)
  /\ Ran("print = 1") => Raised("Cannot assign constant variable", <<"p","r","i","n","t">>)
  /\ Ran("printf = 1") => Raised("Cannot assign constant variable", <<"p","r","i","n","t","f">>)
  /\ Ran("math = 1") => Raised("Cannot assign constant variable", <<"m","a","t","h">>)
  /\ Ran("let true = 1;") => Raised("Cannot redeclare variable", <<"t","r","u","e">>)
  /\ Ran("let math = 1;") => Raised("Cannot redeclare variable", <<"m","a","t","h">>)
  /\ Ran("let print = 1;") => Raised("Cannot redeclare variable", <<"p","r","i","n","t">>)

C12_Witness ==
  /\ Len(hist) = 2 /\ hist[1] = "let y = print;" /\ Ran("print = 1")
  /\ Raised("Cannot assign constant variable", <<"p","r","i","n","t">>)
  /\ env[1][<<"y">>] = env[1][<<"p","r","i","n","t">>]

\* C17: a VariableDeclaration with constant=true and an initializer stores a
\* protected binding: after "const y = 1;" the assignment "y = 2" (and
\* env.assign on y) raises an assignment-to-constant error and lookup of y keeps
\* returning Number(1).
C17_ConstProtected ==
  /\ hist = <<"const y = 1;">> =>
       assign(env, 1, <<"y">>, Number(2)).err =
         Exception("Cannot assign constant variable", <<"y">>)
  /\ hist = <<"const y = 1;", "y = 2">> =>
       /\ Raised("Cannot assign constant variable", <<"y">>)
       /\ IsNumber(lookup(env, 1, <<"y">>).val, 1)

\* C18: a variable declared with let stays assignable: after "let y = true;"
\* or "let y = print;" (the initializer read from a readonly binding) or
\* "let x = 2 + 3;", a later assignment to the variable raises no
\* assignment-to-constant error.
C18_LetStaysAssignable ==
  /\ (Len(hist) = 2 /\ hist[1] \in {"let y = true;", "let y = print;"} /\ Ran("y = 2")) =>
       Returned /\ IsNumber(env[1][<<"y">>], 2)
  /\ (Len(hist) = 2 /\ hist[1] = "let x = 2 + 3;" /\ Ran("print(x = 9)")) =>
       Returned /\ IsNumber(env[1][<<"x">>], 9)

\* the messages of the Exceptions thrown for a frozen instance
FrozenMessages ==
  {"Cannot get magnitude of a freezed vector", "Cannot normalize a freezed vector",
   "Cannot add a freezed vector", "Cannot subtract a freezed vector",
   "Cannot dot a freezed vector", "Cannot cross a freezed vector",
   "Cannot scale a freezed vector", "Cannot add to frozen point",
   "Cannot subtract from frozen point", "Cannot scale frozen point"}

\* C13 (SpecVector): freezing is absorbing for Vector, Vector2D and Point.  An
\* instance on which freeze() was ever called is frozen in every later state;
\* every call of add, subtract or scale (for vectors also dot, normalize,
\* magnitude, and cross on Vector) on a frozen instance throws the frozen
\* Exception, whatever the argument; and a call on an instance that is not
\* frozen never throws it.
C13_FreezeAbsorbing ==
  /\ heap.everFrozen = heap.obj.freezed
  /\ heap.op \in Methods(heap.obj.cls) =>
       IF heap.obj.freezed THEN heap.out.threw \in FrozenMessages
       ELSE heap.out.threw \notin FrozenMessages

C13_Witness ==
  /\ heap.obj.cls = "Vector" /\ heap.obj.freezed /\ heap.op = "cross"
  /\ ~heap.arg.freezed
  /\ heap.out.threw = "Cannot cross a freezed vector"

\* C14 (SpecPure): Point.fromVector with conversionMethod
\* 'orthographic_projection' returns, for every 3D vector (x, y, z), the point
\* (x, y), whatever z is, and never throws.
C14_OrthographicProjection ==
  (/\ heap.op = "fromVector" /\ heap.arg.cls = "Vector"
   /\ heap.options.conversionMethod = "orthographic_projection") =>
    /\ heap.out.threw = ""
    /\ heap.out.inst = Point(heap.arg.x, heap.arg.y)

\* C15 (SpecPure): relu(x) = x when x >= 0 and relu(x) = 0 when x < 0.
C15_Relu ==
  (heap.op = "relu" /\ heap.scalar.k = "int") =>
    heap.out.num = IF heap.scalar.v >= 0 THEN heap.scalar ELSE Int_(0)

RECURSIVE SumOf(_)
SumOf(vs) == IF vs = <<>> THEN 0 ELSE vs[1].v + SumOf(Tail(vs))

\* C16 (SpecAverager): after the function returned by createArithmeticAverager
\* has been called with v1..vk (k >= 1, zeros included), the k-th call has
\* returned (v1 + ... + vk) / k, the running sum is v1 + ... + vk and the count
\* is k.
C16_RunningAverage ==
  heap.op = "average" =>
    /\ heap.out.num = Divide(Int_(SumOf(heap.inputs)), Int_(Len(heap.inputs)))
    /\ heap.closure.sum = Int_(SumOf(heap.inputs))
    /\ heap.closure.count = Int_(Len(heap.inputs))

\* the source is one unsigned numeric literal: digits with at most one '.'
Numeral ==
  /\ \E i \in 1..Len(src) : src[i] \in Digits
  /\ \A i \in 1..Len(src) : src[i] \in Digits \cup {"."}
  /\ Cardinality({i \in 1..Len(src) : src[i] = "."}) <= 1

\* C21 (SpecFront): an unsigned numeric literal (a run of digits with at most
\* one '.', the forms .5 and 5. included) is emitted as one token with the
\* literal's text, of type Decimal if the text has a '.' and Integer otherwise.
C21_NumericLiteral ==
  (LexReturned /\ Numeral) =>
    /\ Len(lex.tokens) = 2
    /\ lex.tokens[1].value = src
    /\ lex.tokens[1].type =
         IF \E i \in 1..Len(src) : src[i] = "." THEN "Decimal" ELSE "Integer"

\* the position of the '"' that closes the string opened by the first
\* character of the source, 0 when the string is not terminated
ClosingQuote ==
  IF \E j \in 2..Len(src) : src[j] = "\""
  THEN CHOOSE j \in 2..Len(src) :
         src[j] = "\"" /\ \A i \in 2..(j - 1) : src[i] # "\""
  ELSE 0

\* C22 (SpecFront): for a source that starts with a double-quoted string the
\* lexer emits one String token whose value is the characters between the
\* opening '"' and the next '"', and goes on after the closing quote; a string
\* that is not terminated consumes to the end of the input without raising.
C22_StringToken ==
  (phase # "lex" /\ Len(src) >= 1 /\ src[1] = "\"") =>
    /\ Len(lex.tokens) >= 1
    /\ lex.tokens[1].type = "String"
    /\ IF ClosingQuote # 0
       THEN /\ lex.tokens[1].value = SubSeq(src, 2, ClosingQuote - 1)
            /\ (LexReturned /\ ClosingQuote = Len(src)) => Len(lex.tokens) = 2
       ELSE /\ LexReturned
            /\ Len(lex.tokens) = 2
            /\ lex.tokens[1].value = Tail(src)

\* the eleven keywords and their token types
KeywordTypes ==
  {"Let", "Const", "Symbol", "If", "Then", "Else", "While", "For", "Do", "Func", "Null"}

\* C23 (SpecFront): a source that is one run of alphabetic characters is
\* emitted as one token with a keyword type exactly when its text is one of the
\* eleven keywords (case-sensitive), and as an Identifier token otherwise,
\* names such as constructor, toString or valueOf included.
C23_KeywordsAndIdentifiers ==
  (LexReturned /\ Len(src) >= 1 /\ \A i \in 1..Len(src) : src[i] \in Letters) =>
    /\ Len(lex.tokens) = 2
    /\ lex.tokens[1].value = src
    /\ Cardinality(DOMAIN keywords) = 11
    /\ IF src \in DOMAIN keywords
       THEN lex.tokens[1].type = keywords[src] /\ keywords[src] \in KeywordTypes
       ELSE lex.tokens[1].type = "Identifier"

\* what a syntax tree contains: "object" for an ObjectLiteral, "computed" and
\* "dot" for the two forms of MemberExpression
RECURSIVE Shapes(_)
Shapes(n) ==
  CASE n.kind = "BinaryExpression" -> Shapes(n.left) \cup Shapes(n.right)
    [] n.kind = "MemberExpression" ->
         {IF n.computed THEN "computed" ELSE "dot"} \cup Shapes(n.object)
           \cup Shapes(n.property)
    [] n.kind = "CallExpression" ->
         Shapes(n.caller) \cup UNION {Shapes(n.arguments[k]) : k \in 1..Len(n.arguments)}
    [] n.kind = "ObjectLiteral" ->
         {"object"} \cup UNION {Shapes(n.properties[k].value) : k \in 1..Len(n.properties)}
    [] n.kind = "AssignmentExpression" -> Shapes(n.target) \cup Shapes(n.value)
    [] n.kind = "VariableDeclaration" -> Shapes(n.value)
    [] OTHER -> {}

\* what the statements parsed so far contain
BodyShapes == UNION {Shapes(par.body[k]) : k \in 1..Len(par.body)}

InSource(c) == \E i \in 1..Len(src) : src[i] = c

Ident(c) == [kind |-> "Identifier", symbol |-> <<c>>]

DotBeforeOther ==
  \E k \in 1..(Len(lex.tokens) - 1) :
    lex.tokens[k].type = "Dot" /\ lex.tokens[k + 1].type # "Identifier"

\* C25 (SpecFront): dot access is accepted only when the token immediately
\* after '.' is an Identifier token; for any other token after '.' parse raises
\* and produces no MemberExpression.  Bracket access accepts any expression
\* followed by ']'.
C25_DotNeedsIdentifier ==
  /\ (phase \in {"returned", "raised"} /\ DotBeforeOther) =>
       phase = "raised" /\ "dot" \notin BodyShapes
  /\ (phase \in {"returned", "raised"} /\ src = <<"a", "[", "a", "]", "[", "1", "]">>) =>
       phase = "returned" /\ "computed" \in BodyShapes

\* the source text "a op1 a op2 a", sp between operands and operators
Chain(op1, op2, sp) == <<"a">> \o sp \o op1 \o sp \o <<"a">> \o sp \o op2 \o sp \o <<"a">>

\* the pairs of operators of one tier among the sources
SameTier ==
  {<< <<"*">>, <<"*", "*">> >>, << <<"*", "*">>, <<"*">> >>,
   << <<"/">>, <<"%">> >>, << <<"%">>, <<"/">> >>,
   << <<"+">>, <<"+">> >>, << <<"-">>, <<"-">> >>, << <<"+">>, <<"-">> >>}

\* C26 (SpecFront): *, **, / and % share one precedence tier and associate to
\* the left, as do + and - on the additive tier: "a op1 a op2 a" with op1 and
\* op2 of one tier parses to the single statement
\* BinaryExpression(BinaryExpression(a, op1, a), op2, a).
C26_LeftAssociative ==
  \A ops \in SameTier : \A sp \in {<<>>, <<" ">>} :
    (phase \in {"returned", "raised"} /\ src = Chain(ops[1], ops[2], sp)) =>
      /\ phase = "returned"
      /\ par.body = <<Binary(Binary(Ident("a"), ops[1], Ident("a")), ops[2], Ident("a"))>>

\* What the code does when blanks separate operands and operators: every chain
\* of one tier, those with - included, groups to the left.
SpacedChainsGroupLeft ==
  \A ops \in SameTier :
    (phase \in {"returned", "raised"} /\ src = Chain(ops[1], ops[2], <<" ">>)) =>
      /\ phase = "returned"
      /\ par.body = <<Binary(Binary(Ident("a"), ops[1], Ident("a")), ops[2], Ident("a"))>>


\* the last run followed "let x = 2 + 3;" on the same environment
AfterLetX(id) == hist = <<"let x = 2 + 3;", id>>

\* the last run called print once, with the number n
Printed(n) ==
  /\ Len(last.calls) = 1
  /\ last.calls[1].handler = "print"
  /\ Len(last.calls[1].args) = 1 /\ IsNumber(last.calls[1].args[1], n)

\* C27: a BinaryExpression evaluates both operands, the left one completely
\* before the right one, so that the right one sees the left one's side
\* effects; two Numbers give the operator's result, every other combination
\* of types gives Null without an error, the side effects of both operands
\* having taken place.  With x = 5: "(x = 7) + x" is 14, "x + (x = 7)" is 12,
\* "(x = 7) + print(x)" prints 7 and "print(1) + (x = 7)" prints 1, and these
\* two, "true + (x = 7)" and "(x = 7) * print" are Null with x left at 7.
C27_BinaryOperandOrder ==
  /\ AfterLetX("(x = 7) + x") =>
       Returned /\ IsNumber(last.val, 14) /\ IsNumber(env[1][<<"x">>], 7)
  /\ AfterLetX("x + (x = 7)") =>
       Returned /\ IsNumber(last.val, 12) /\ IsNumber(env[1][<<"x">>], 7)
  /\ AfterLetX("(x = 7) + print(x)") =>
       Returned /\ last.val.type = "null" /\ Printed(7) /\ IsNumber(env[1][<<"x">>], 7)
  /\ AfterLetX("print(1) + (x = 7)") =>
       Returned /\ last.val.type = "null" /\ Printed(1) /\ IsNumber(env[1][<<"x">>], 7)
  /\ AfterLetX("true + (x = 7)") =>
       Returned /\ last.val.type = "null" /\ IsNumber(env[1][<<"x">>], 7)
  /\ AfterLetX("(x = 7) * print") =>
       Returned /\ last.val.type = "null" /\ IsNumber(env[1][<<"x">>], 7)

C27_Witness ==
  /\ AfterLetX("(x = 7) + print(x)")
  /\ IsNumber(envBefore[1][<<"x">>], 5)
  /\ last.val.type = "null" /\ Printed(7)

\* the global scope after the run is the one before it plus the names of
\* added, nothing else added, removed or changed
OnlyAdded(added) ==
  /\ DOMAIN env[1] = DOMAIN envBefore[1] \cup added
  /\ \A n \in DOMAIN envBefore[1] \ added : env[1][n] = envBefore[1][n]

Fresh(names) == names \cap DOMAIN envBefore[1] = {}

\* C28: a Program's statements are evaluated in order against one environment;
\* its value is the last statement's value, Null for an empty body; when
\* statement k raises, the error propagates, no later statement is evaluated
\* and the environment holds the effects of the statements before k.  The
\* empty source gives Null and changes nothing; "let a = 7; a" gives 7;
\* "let a = 7; zzz let b = 1;" raises on zzz with a declared and b not;
\* "let b = 1; let a = 7; let a = 8; let x = 1;" raises on the second let a with
\* b = 1, a = 7 and x untouched; a first statement that raises changes nothing.
C28_ProgramInOrder ==
  /\ Ran("") => Returned /\ last.val.type = "null" /\ env = envBefore
  /\ (Ran("let a = 7; a") /\ Fresh({<<"a">>})) =>
       /\ Returned /\ IsNumber(last.val, 7)
       /\ OnlyAdded({<<"a">>}) /\ IsNumber(env[1][<<"a">>], 7)
  /\ (Ran("let a = 7; a") /\ ~Fresh({<<"a">>})) =>
       Raised("Cannot redeclare variable", <<"a">>) /\ env = envBefore
  /\ (Ran("let a = 7; zzz let b = 1;") /\ Fresh({<<"a">>, <<"b">>})) =>
       /\ Raised("Undefined variable", <<"z", "z", "z">>)
       /\ OnlyAdded({<<"a">>}) /\ IsNumber(env[1][<<"a">>], 7)
  /\ (Ran("let b = 1; let a = 7; let a = 8; let x = 1;") /\ Fresh({<<"a">>, <<"b">>})) =>
       /\ Raised("Cannot redeclare variable", <<"a">>)
       /\ OnlyAdded({<<"a">>, <<"b">>})
       /\ IsNumber(env[1][<<"a">>], 7) /\ IsNumber(env[1][<<"b">>], 1)

C28_Witness ==
  /\ Ran("let a = 7; zzz let b = 1;") /\ Fresh({<<"a">>, <<"b">>})
  /\ last.err.kind = "Exception"
  /\ <<"a">> \in DOMAIN env[1] /\ <<"b">> \notin DOMAIN env[1]

\* the sources that are one VariableDeclaration
Declarations ==
  {"const y = 1;", "let x = 2 + 3;", "let a = 7;", "let y = true;", "let y = print;",
   "let x = (x = 9);", "let z = (x = 9) + zzz;", "let z = zzz;"}

\* C29: a failing declaration is atomic: when evaluating a VariableDeclaration
\* raises, for a redeclaration or for an error inside the initializer, every
\* scope of the environment is as it was before the evaluation started.
C29_FailingDeclarationAtomic ==
  (Len(hist) > 0 /\ hist[Len(hist)] \in Declarations /\ last.err.kind # "none") =>
    env = envBefore

\* the line terminators among the first n characters of the source, "\r\n"
\* counted once
LineTerminators(n) ==
  Cardinality({i \in 1..(IF n < Len(src) THEN n ELSE Len(src)) :
    \/ src[i] = "\n"
    \/ src[i] = "\r" /\ (i = Len(src) \/ src[i + 1] # "\n")})

\* the tokens whose text ends where their position says: all but the ones of
\* the '-' branch and of the string branch
Positioned(tk) == tk.value = <<>> \/ tk.value[1] \notin {"-", "\""}

\* C30 (SpecFront): the line recorded in every token and in every
\* UnrecognizedTokenError is 1 plus the number of line terminators before it
\* in the source, "\r\n" counting as one terminator, and the column is 1 for
\* an identifier that directly follows a line terminator.
C30_LineNumbers ==
  /\ \A k \in 1..Len(lex.tokens) :
       LET tk == lex.tokens[k]
       IN  Positioned(tk) =>
             /\ tk.line = 1 + LineTerminators(tk.position)
             /\ (/\ tk.type = "Identifier"
                 /\ tk.position > Len(tk.value)
                 /\ src[tk.position - Len(tk.value)] \in {"\n", "\r"}) => tk.column = 1
  /\ lex.err.kind # "none" => lex.err.line = 1 + LineTerminators(lex.err.position)

\* What the code does: '\r' and '\n' each add one to the line, so that without
\* '\r' and '-' in the source the recorded lines are the claimed ones.
LinesCountNewlines ==
  (\A i \in 1..Len(src) : src[i] \notin {"\r", "-", "\""}) => C30_LineNumbers

====
